---- MODULE Spec2Model ----
(***************************************************************************)
(* A model of the sharo bytecode virtual machine: values, the object heap, *)
(* string interning, the value stack, call frames, the open-upvalue list   *)
(* and the instruction handlers of run().                                  *)
(*                                                                         *)
(* Conventions                                                             *)
(*  - A heap object is named by its position in `heap' (its address);      *)
(*    NULL is 0.                                                           *)
(*  - A Value is a record [t, v]: t is the type the IS_* tests see, v the  *)
(*    payload (an int, a float counted in halves, a heap address).         *)
(*  - vm.stack is a fixed array: a slot above stackTop keeps the last      *)
(*    value written to it, as the C array does.                            *)
(*  - A chunk's code is a sequence of instructions [op, a, b, uv]; the     *)
(*    instruction pointer counts instructions.  A chunk whose code is      *)
(*    empty is an open chunk: its instruction stream is an input, every    *)
(*    instruction the compiler could have placed there may be fetched,     *)
(*    drawn from the opcodes in `emitted'.                                 *)
(***************************************************************************)
EXTENDS Integers, Sequences, FiniteSets, TLC

VARIABLES
  NAN_BOXING,     \* build option of common.h: the NaN-boxed Value encoding
  COMPUTED_GOTO,  \* build option of common.h: threaded dispatch in run()
  heap,           \* every allocated Obj, by address
  strings,        \* vm.strings, the intern table
  globals,        \* vm.globals
  stack,          \* vm.stack
  stackTop,       \* vm.stackTop, as an index into vm.stack
  frames,         \* vm.frames[0 .. vm.frameCount-1]
  openUpvalues,   \* vm.openUpvalues: the linked list, head first
  output,         \* what PRINT has written to stdout
  result,         \* "idle", "running", or the InterpretResult of the last run
  errorMsg,       \* the message of the last runtimeError
  sources,        \* the functions compile() returns for the sources still to run
  emitted,        \* the opcodes compile() wrote into the open chunks
  program,        \* the function of the source interpret() ran last
  steps,          \* the number of instructions executed so far
  last,           \* the instruction executed last, with its operands
  compiling       \* compile(): the sources to compile, the parser, the Compilers

vars == <<NAN_BOXING, COMPUTED_GOTO, heap, strings, globals, stack, stackTop,
          frames, openUpvalues, output, result, errorMsg, sources, emitted,
          program, steps, last, compiling>>

(***************************************************************************)
(* Bounds of the model.                                                    *)
(***************************************************************************)
\* vm.h's FRAMES_MAX, scaled down so that the frame array fills up.
FRAMES_MAX == 2
\* vm.h's STACK_MAX, scaled down; instructions that would push past it are
\* not explored.
STACK_MAX == 6
\* the stack slots the instructions of open chunks use
MaxDepth == 4
\* the objects the instructions of open chunks allocate in one run
MaxObjects == 4
\* Longest string the string operations are explored with.
MaxStrLen == 2
\* Largest operand count explored for CALL, INVOKE and ARRAY.
MaxArgs == 1
\* the instructions of open chunks a behaviour executes
MaxSteps == 7
\* The widths of the numbers, scaled down in the order of the real ones:
\* the int payload of a NaN-boxed Value (48 bits in value.h), the
\* significand of a double (53 bits) and int64_t (64 bits).
INT_BITS == 6
MANT_BITS == 7
INT64_BITS == 9

NULL == 0

(***************************************************************************)
(* value.h: Value construction, type tests, extraction.                    *)
(***************************************************************************)
\* A double that is not a number; every other double of the model is a
\* count of halves (2 is 1.0, 3 is 1.5).
NaN == 1000000

NIL_VAL == [t |-> "nil", v |-> 0]
BOOL_VAL(b) == [t |-> "bool", v |-> IF b THEN 1 ELSE 0]
RECURSIVE Pow2(_)
Pow2(n) == IF n = 0 THEN 1 ELSE 2 * Pow2(n - 1)

\* nanbox_as_int of the low `bits' bits of i: the sign-extended payload
nanbox_as_int(i, bits) ==
  LET low == i % Pow2(bits) IN IF low >= Pow2(bits - 1) THEN low - Pow2(bits) ELSE low

\* INT_VAL keeps the low 48 bits of i when NaN-boxed and all of an int64_t
\* when tagged; v is the integer AS_INT reads back.
INT_VAL(i) == [t |-> "int", v |-> IF NAN_BOXING THEN nanbox_as_int(i, INT_BITS) ELSE i]
FLOAT_VAL(d) == [t |-> "float", v |-> d]
PTR_VAL(p) == [t |-> "ptr", v |-> p]
OBJ_VAL(o) == [t |-> "obj", v |-> o]

IS_NIL(value) == value.t = "nil"
IS_BOOL(value) == value.t = "bool"
IS_INT(value) == value.t = "int"
IS_FLOAT(value) == value.t = "float"
IS_PTR(value) == value.t = "ptr"
IS_OBJ(value) == value.t = "obj"
IS_NUMBER(value) == IS_FLOAT(value) \/ IS_INT(value)

AS_BOOL(value) == value.v = 1
AS_INT(value) == value.v
AS_FLOAT(value) == value.v
AS_OBJ(value) == value.v
\* The spacing of the doubles around the integer n >= 0: 1 up to
\* 2^MANT_BITS, doubling with each further bit.
RECURSIVE Ulp(_, _, _)
Ulp(n, bits, step) == IF n <= Pow2(bits) * step THEN step ELSE Ulp(n, bits, 2 * step)

\* The integer i rounded to a significand of `bits' bits, ties to even.
RoundToDouble(i, bits) ==
  LET n == IF i < 0 THEN -i ELSE i
      step == Ulp(n, bits, 1)
      q == n \div step
      r == n % step
      m == IF 2 * r < step THEN q
           ELSE IF 2 * r > step THEN q + 1
           ELSE IF q % 2 = 0 THEN q ELSE q + 1
  IN  IF i < 0 THEN -(m * step) ELSE m * step

\* (double)i with a significand one bit short
IntToDoubleShortSignificand(i) == 2 * RoundToDouble(i, MANT_BITS - 1)

\* (double)i, in halves
IntToDouble(i) == 2 * RoundToDouble(i, MANT_BITS)
AS_NUMBER(value) == IF IS_FLOAT(value) THEN AS_FLOAT(value) ELSE IntToDouble(AS_INT(value))

\* a == b on doubles: a NaN equals nothing, itself included
DoubleEq(a, b) == a # NaN /\ b # NaN /\ a = b

isFalsey(value) == IS_NIL(value) \/ (IS_BOOL(value) /\ ~AS_BOOL(value))

\* The bytes of a zero-initialised Value (vm is a global): 0.0 when NaN-boxed,
\* {VAL_BOOL, false} when tagged.
ZeroValue(nanBoxing) == IF nanBoxing THEN FLOAT_VAL(0) ELSE BOOL_VAL(FALSE)

\* valuesEqual as the comparison of the two representations alone
valuesEqualSameBits(a, b) == a = b

valuesEqual(a, b) ==
  IF NAN_BOXING
    THEN IF IS_NUMBER(a) /\ IS_NUMBER(b)
           THEN DoubleEq(AS_NUMBER(a), AS_NUMBER(b))
           ELSE a = b
    ELSE IF a.t # b.t
           THEN IF IS_NUMBER(a) /\ IS_NUMBER(b)
                  THEN DoubleEq(AS_NUMBER(a), AS_NUMBER(b))
                  ELSE FALSE
           ELSE CASE a.t = "bool"  -> AS_BOOL(a) = AS_BOOL(b)
                  [] a.t = "nil"   -> TRUE
                  [] a.t = "int"   -> AS_INT(a) = AS_INT(b)
                  [] a.t = "float" -> DoubleEq(AS_FLOAT(a), AS_FLOAT(b))
                  [] a.t = "ptr"   -> a.v = b.v
                  [] a.t = "obj"   -> AS_OBJ(a) = AS_OBJ(b)
                  [] OTHER         -> FALSE

(***************************************************************************)
(* object.h: the heap objects.                                             *)
(***************************************************************************)
StringObj(chars, hash) == [type |-> "OBJ_STRING", chars |-> chars, hash |-> hash]
FunctionObj(arity, upvalueCount, name, code, constants) ==
  [type |-> "OBJ_FUNCTION", arity |-> arity, upvalueCount |-> upvalueCount,
   name |-> name, code |-> code, constants |-> constants]
NativeObj(function) == [type |-> "OBJ_NATIVE", function |-> function]
ClosureObj(function, upvalues) ==
  [type |-> "OBJ_CLOSURE", function |-> function, upvalues |-> upvalues]
\* location is a stack index while the upvalue is open and CLOSED once it
\* points at its own `closed' field.
CLOSED == -1
UpvalueObj(location, closed) ==
  [type |-> "OBJ_UPVALUE", location |-> location, closed |-> closed]
ArrayObj(elements) == [type |-> "OBJ_ARRAY", elements |-> elements]
StructDefObj(name, fieldCount, fieldNames, fieldIndices, methods) ==
  [type |-> "OBJ_STRUCT_DEF", name |-> name, fieldCount |-> fieldCount,
   fieldNames |-> fieldNames, fieldIndices |-> fieldIndices, methods |-> methods]
StructObj(definition, fields) ==
  [type |-> "OBJ_STRUCT", definition |-> definition, fields |-> fields]
BoundMethodObj(receiver, method) ==
  [type |-> "OBJ_BOUND_METHOD", receiver |-> receiver, method |-> method]

isObjType(value, type) == IS_OBJ(value) /\ heap[AS_OBJ(value)].type = type
IS_STRING(value) == isObjType(value, "OBJ_STRING")
IS_NATIVE(value) == isObjType(value, "OBJ_NATIVE")
IS_CLOSURE(value) == isObjType(value, "OBJ_CLOSURE")
IS_ARRAY(value) == isObjType(value, "OBJ_ARRAY")
IS_STRUCT_DEF(value) == isObjType(value, "OBJ_STRUCT_DEF")
IS_STRUCT(value) == isObjType(value, "OBJ_STRUCT")
IS_BOUND_METHOD(value) == isObjType(value, "OBJ_BOUND_METHOD")

\* allocateObject: the new object's address
NewAddr(h) == Len(h) + 1

(***************************************************************************)
(* object.c: hashString, FNV-1a on 32 bits.  A hash is kept as its two     *)
(* 16-bit halves <<high, low>> so that no intermediate product leaves the  *)
(* range of the checker's integers.                                        *)
(***************************************************************************)
\* The element of a one-element set.  {F(x) : x \in {e}} is F(e) with e
\* evaluated once, however often F uses it.
The(S) == CHOOSE x \in S : TRUE

RECURSIVE XorBits(_, _, _)
XorBits(a, b, n) ==
  IF n = 0 THEN 0
  ELSE (((a % 2) + (b % 2)) % 2) + 2 * XorBits(a \div 2, b \div 2, n - 1)

\* hash ^= (uint8_t)key[i]; hash *= 16777619 (0x01000193), modulo 2^32
HashStep(hash, byte) ==
  LET lo1 == (hash[2] - (hash[2] % 256)) + XorBits(hash[2] % 256, byte, 8)
      p   == lo1 * 403
  IN  << ((hash[1] * 403) + (p \div 65536) + ((lo1 % 256) * 256)) % 65536, p % 65536 >>

RECURSIVE HashFrom(_, _, _)
HashFrom(hash, key, i) ==
  IF i > Len(key) THEN hash
  ELSE The({HashFrom(next, key, i + 1) : next \in {HashStep(hash, key[i])}})

\* 2166136261 is 0x811C9DC5
hashString(key) == HashFrom(<<33052, 40389>>, key, 1)

(***************************************************************************)
(* The hash table (table.h): open addressing with linear probing, load     *)
(* factor at most 0.75, tombstones.  A key is the address of an interned   *)
(* string; the probe sequence starts at the key's cached hash modulo the   *)
(* capacity.                                                               *)
(***************************************************************************)
EmptyEntry == [key |-> NULL, value |-> NIL_VAL]
Tombstone == [key |-> NULL, value |-> BOOL_VAL(TRUE)]

initTable == [count |-> 0, capacity |-> 0, entries |-> <<>>]

GROW_CAPACITY(capacity) == IF capacity < 8 THEN 8 ELSE capacity * 2

\* hash & (capacity - 1), as a position 1..capacity; capacity is a power of two
\* no larger than 2^16
HashIndex(hash, capacity) == (hash[2] % capacity) + 1

NextIndex(index, capacity) == (index % capacity) + 1

\* findEntry: the position of `key', or else of the first tombstone passed, or
\* else of the empty entry that ended the probe
RECURSIVE FindFrom(_, _, _, _, _)
FindFrom(entries, capacity, key, index, tombstone) ==
  LET entry == entries[index] IN
  IF entry.key = NULL
    THEN IF IS_NIL(entry.value)
           THEN IF tombstone # NULL THEN tombstone ELSE index
           ELSE FindFrom(entries, capacity, key, NextIndex(index, capacity),
                         IF tombstone = NULL THEN index ELSE tombstone)
    ELSE IF entry.key = key
           THEN index
           ELSE FindFrom(entries, capacity, key, NextIndex(index, capacity), tombstone)

findEntry(h, entries, capacity, key) ==
  FindFrom(entries, capacity, key, HashIndex(h[key].hash, capacity), NULL)

\* tableGet: <<found, value>>
tableGet(h, table, key) ==
  IF table.count = 0 THEN <<FALSE, NIL_VAL>>
  ELSE LET entry == table.entries[findEntry(h, table.entries, table.capacity, key)]
       IN  IF entry.key = NULL THEN <<FALSE, NIL_VAL>> ELSE <<TRUE, entry.value>>

\* adjustCapacity: re-insert every filled entry into a table of `capacity'
\* empty entries; tombstones are dropped
RECURSIVE Reinsert(_, _, _, _, _)
Reinsert(h, old, i, entries, capacity) ==
  IF i > Len(old) THEN entries
  ELSE IF old[i].key = NULL THEN Reinsert(h, old, i + 1, entries, capacity)
  ELSE Reinsert(h, old, i + 1,
                [entries EXCEPT ![findEntry(h, entries, capacity, old[i].key)] = old[i]],
                capacity)

adjustCapacity(h, table, capacity) ==
  [count    |-> Cardinality({i \in 1..Len(table.entries) : table.entries[i].key # NULL}),
   capacity |-> capacity,
   entries  |-> Reinsert(h, table.entries, 1, [i \in 1..capacity |-> EmptyEntry], capacity)]

\* tableSet: [table, isNewKey]
tableSet(h, table, key, value) ==
  LET t == IF 4 * (table.count + 1) > 3 * table.capacity
             THEN adjustCapacity(h, table, GROW_CAPACITY(table.capacity))
             ELSE table
      index == findEntry(h, t.entries, t.capacity, key)
      entry == t.entries[index]
      isNewKey == entry.key = NULL
  IN  [table |-> [count    |-> IF isNewKey /\ IS_NIL(entry.value) THEN t.count + 1 ELSE t.count,
                  capacity |-> t.capacity,
                  entries  |-> [t.entries EXCEPT ![index] = [key |-> key, value |-> value]]],
       isNewKey |-> isNewKey]

\* tableDelete: the table with the entry of `key', if any, turned into a tombstone
tableDelete(h, table, key) ==
  IF table.count = 0 THEN table
  ELSE LET index == findEntry(h, table.entries, table.capacity, key) IN
       IF table.entries[index].key = NULL THEN table
       ELSE [table EXCEPT !.entries[index] = Tombstone]

\* tableFindString: the interned string with these bytes, or NULL
RECURSIVE FindStringFrom(_, _, _, _, _)
FindStringFrom(h, table, chars, hash, index) ==
  LET entry == table.entries[index] IN
  IF entry.key = NULL
    THEN IF IS_NIL(entry.value) THEN NULL
         ELSE FindStringFrom(h, table, chars, hash, NextIndex(index, table.capacity))
    ELSE IF /\ Len(h[entry.key].chars) = Len(chars)
            /\ h[entry.key].hash = hash
            /\ h[entry.key].chars = chars
           THEN entry.key
           ELSE FindStringFrom(h, table, chars, hash, NextIndex(index, table.capacity))

tableFindString(h, table, chars, hash) ==
  IF table.count = 0 THEN NULL
  ELSE FindStringFrom(h, table, chars, hash, HashIndex(hash, table.capacity))

(***************************************************************************)
(* object.c: string interning.  Each operator returns the heap and the     *)
(* intern table after the call and the address of the string returned.     *)
(***************************************************************************)
allocateString(h, tbl, chars, hash) ==
  LET string == NewAddr(h)
      h1 == Append(h, StringObj(chars, hash))
  IN  [heap |-> h1, strings |-> tableSet(h1, tbl, string, NIL_VAL).table, obj |-> string]

\* takeString without its lookup of the intern table
takeStringAlwaysAllocates(h, tbl, chars) == allocateString(h, tbl, chars, hashString(chars))

takeString(h, tbl, chars) ==
  LET hash == hashString(chars)
      interned == tableFindString(h, tbl, chars, hash)
  IN  IF interned # NULL
        THEN [heap |-> h, strings |-> tbl, obj |-> interned]
        ELSE allocateString(h, tbl, chars, hash)

copyString(h, tbl, chars) ==
  LET hash == hashString(chars)
      interned == tableFindString(h, tbl, chars, hash)
  IN  IF interned # NULL
        THEN [heap |-> h, strings |-> tbl, obj |-> interned]
        ELSE allocateString(h, tbl, chars, hash)

(***************************************************************************)
(* vm.c: the state run() works on.                                         *)
(***************************************************************************)
frameCount == Len(frames)
CurFrame == frames[Len(frames)]
CurClosure == heap[CurFrame.closure]
CurFunction == heap[CurClosure.function]
OpenChunk == CurFunction.code = <<>>
\* number of stack slots of the current frame, slot 0 included
Depth == stackTop - CurFrame.slots

Instr(op, a, b, uv) == [op |-> op, a |-> a, b |-> b, uv |-> uv]
NoInstr == Instr("none", 0, 0, <<>>)

peek(distance) == stack[stackTop - 1 - distance]
READ_CONSTANT(index) == CurFunction.constants[index + 1]

\* vm.frames after the instruction and its operands have been read
Fetched == [frames EXCEPT ![Len(frames)].ip = IF OpenChunk THEN @ ELSE @ + 1]

\* The instruction at frame->ip is `i'.  In an open chunk any instruction may
\* stand there whose operands satisfy `wellFormed', the shape the compiler
\* gives its code.
Fetch(i, wellFormed) ==
  /\ result = "running"
  /\ frames # <<>>
  /\ IF OpenChunk
       THEN steps < MaxSteps /\ i.op \in emitted /\ wellFormed
       ELSE /\ CurFrame.ip <= Len(CurFunction.code)
            /\ CurFunction.code[CurFrame.ip] = i

\* the state a handler leaves, run() going on or returning `res'
Leave(h, s, g, stk, top, frs, open, out, res) ==
  /\ heap' = h
  /\ strings' = s
  /\ globals' = g
  /\ stack' = stk
  /\ stackTop' = top
  /\ frames' = frs
  /\ openUpvalues' = open
  /\ output' = out
  /\ result' = res
  /\ errorMsg' = errorMsg

\* the instruction continues with DISPATCH()
Go(h, s, g, stk, top, frs, open, out) ==
  Leave(h, s, g, stk, top, frs, open, out, "running")

resetStack ==
  /\ stackTop' = 0
  /\ frames' = <<>>
  /\ openUpvalues' = <<>>

\* runtimeError(format, ...) followed by return INTERPRET_RUNTIME_ERROR
runtimeErrorKeepsStack(format, args) ==
  /\ errorMsg' = [format |-> format, args |-> args]
  /\ UNCHANGED <<stackTop, frames, openUpvalues>>
  /\ result' = "INTERPRET_RUNTIME_ERROR"

runtimeError(format, args) ==
  /\ errorMsg' = [format |-> format, args |-> args]
  /\ resetStack
  /\ result' = "INTERPRET_RUNTIME_ERROR"

\* a runtime error in a handler that has written nothing but the stack pointer
Raise(format, args) ==
  /\ runtimeError(format, args)
  /\ UNCHANGED <<heap, strings, globals, stack, output>>

\* push(value)
Push(value) ==
  Go(heap, strings, globals, [stack EXCEPT ![stackTop] = value], stackTop + 1,
     Fetched, openUpvalues, output)

\* n pops, then push(value)
PopPush(n, value) ==
  Go(heap, strings, globals, [stack EXCEPT ![stackTop - n] = value], stackTop - n + 1,
     Fetched, openUpvalues, output)

CanPush == stackTop < MaxDepth
\* interpret() allocates the script's closure first
CanAllocate(n) == Len(heap) + n <= frames[1].closure + MaxObjects

(***************************************************************************)
(* vm.c: upvalues.                                                         *)
(***************************************************************************)
\* The first position of the open list whose upvalue does not point above
\* `local' (Len + 1 when the walk reaches the end of the list).
RECURSIVE WalkOpen(_, _, _, _)
WalkOpen(h, open, local, k) ==
  IF k <= Len(open) /\ h[open[k]].location > local
    THEN WalkOpen(h, open, local, k + 1)
    ELSE k

InsertAt(seq, k, x) == SubSeq(seq, 1, k - 1) \o <<x>> \o SubSeq(seq, k, Len(seq))

\* captureUpvalue without the test for an upvalue that points at `local'
captureUpvalueNeverReuses(h, open, local) ==
  LET k == WalkOpen(h, open, local, 1) IN
  [heap |-> Append(h, UpvalueObj(local, NIL_VAL)),
   open |-> InsertAt(open, k, NewAddr(h)),
   obj  |-> NewAddr(h)]

\* captureUpvalue(local): [heap, open, obj]
captureUpvalue(h, open, local) ==
  LET k == WalkOpen(h, open, local, 1) IN
  IF k <= Len(open) /\ h[open[k]].location = local
    THEN [heap |-> h, open |-> open, obj |-> open[k]]
    ELSE [heap |-> Append(h, UpvalueObj(local, NIL_VAL)),
          open |-> InsertAt(open, k, NewAddr(h)),
          obj  |-> NewAddr(h)]

\* closeUpvalues(last): [heap, open]
RECURSIVE closeUpvalues(_, _, _, _)
closeUpvalues(h, stk, open, lastSlot) ==
  IF open # <<>> /\ h[Head(open)].location >= lastSlot
    THEN closeUpvalues(
           [h EXCEPT ![Head(open)] = UpvalueObj(CLOSED, stk[h[Head(open)].location])],
           stk, Tail(open), lastSlot)
    ELSE [heap |-> h, open |-> open]

\* *upvalue->location
ReadUpvalue(h, stk, upvalue) ==
  IF h[upvalue].location = CLOSED THEN h[upvalue].closed ELSE stk[h[upvalue].location]

(***************************************************************************)
(* vm.c: run(), one definition per instruction handler.  The computed-goto *)
(* handlers and the switch cases are the same code except where a handler  *)
(* reads COMPUTED_GOTO.                                                    *)
(***************************************************************************)
Running == result = "running" /\ frames # <<>>
ConstantIndexes == IF Running THEN 0..(Len(CurFunction.constants) - 1) ELSE {}
UpvalueSlots == IF Running THEN 0..(Len(CurClosure.upvalues) - 1) ELSE {}
LocalSlots == 0..(STACK_MAX - 1)
IsFunctionConstant(index) ==
  IS_OBJ(READ_CONSTANT(index)) /\ heap[AS_OBJ(READ_CONSTANT(index))].type = "OBJ_FUNCTION"
IsStringConstant(index) == IS_STRING(READ_CONSTANT(index))
\* READ_STRING()
READ_STRING(index) == AS_OBJ(READ_CONSTANT(index))

Step(i, wellFormed, handler) ==
  /\ Fetch(i, wellFormed)
  /\ handler
  /\ last' = i
  /\ steps' = steps + 1
  /\ UNCHANGED <<NAN_BOXING, COMPUTED_GOTO, sources, emitted, program, compiling>>

do_CONSTANT(index) == Push(READ_CONSTANT(index))
do_NIL == Push(NIL_VAL)
do_TRUE == Push(BOOL_VAL(TRUE))
do_FALSE == Push(BOOL_VAL(FALSE))
do_POP ==
  Go(heap, strings, globals, stack, stackTop - 1, Fetched, openUpvalues, output)
do_DUP == Push(peek(0))
do_GET_LOCAL(slot) == Push(stack[CurFrame.slots + slot])
do_GET_LOCAL_0 == Push(stack[CurFrame.slots])
do_GET_LOCAL_1 == Push(stack[CurFrame.slots + 1])
do_GET_LOCAL_2 == Push(stack[CurFrame.slots + 2])
do_SET_LOCAL(slot) ==
  Go(heap, strings, globals, [stack EXCEPT ![CurFrame.slots + slot] = peek(0)],
     stackTop, Fetched, openUpvalues, output)

do_GET_GLOBAL(index) ==
  LET name == READ_STRING(index)
      got == tableGet(heap, globals, name)
  IN  IF ~got[1]
        THEN Raise("Undefined variable '%s'.", <<heap[name].chars>>)
        ELSE Push(got[2])

do_DEFINE_GLOBAL(index) ==
  Go(heap, strings, tableSet(heap, globals, READ_STRING(index), peek(0)).table,
     stack, stackTop - 1, Fetched, openUpvalues, output)

\* SET_GLOBAL that leaves the entry tableSet created
do_SET_GLOBALKeepsEntry(index) ==
  LET name == READ_STRING(index)
      set == tableSet(heap, globals, name, peek(0))
  IN  IF set.isNewKey
        THEN /\ runtimeError("Undefined variable '%s'.", <<heap[name].chars>>)
             /\ globals' = set.table
             /\ UNCHANGED <<heap, strings, stack, output>>
        ELSE Go(heap, strings, set.table, stack, stackTop, Fetched, openUpvalues, output)

do_SET_GLOBAL(index) ==
  LET name == READ_STRING(index)
      set == tableSet(heap, globals, name, peek(0))
  IN  IF set.isNewKey
        THEN /\ runtimeError("Undefined variable '%s'.", <<heap[name].chars>>)
             /\ globals' = tableDelete(heap, set.table, name)
             /\ UNCHANGED <<heap, strings, stack, output>>
        ELSE Go(heap, strings, set.table, stack, stackTop, Fetched, openUpvalues, output)

do_GET_UPVALUE(slot) == Push(ReadUpvalue(heap, stack, CurClosure.upvalues[slot + 1]))

do_SET_UPVALUE(slot) ==
  LET upvalue == CurClosure.upvalues[slot + 1] IN
  IF heap[upvalue].location = CLOSED
    THEN Go([heap EXCEPT ![upvalue].closed = peek(0)], strings, globals, stack,
            stackTop, Fetched, openUpvalues, output)
    ELSE Go(heap, strings, globals, [stack EXCEPT ![heap[upvalue].location] = peek(0)],
            stackTop, Fetched, openUpvalues, output)

do_EQUAL == PopPush(2, BOOL_VAL(valuesEqual(peek(1), peek(0))))

\* object.c constructors: the object a fresh allocation holds
newClosure(function, upvalueCount) == ClosureObj(function, [i \in 1..upvalueCount |-> NULL])
newUpvalue(slot) == UpvalueObj(slot, NIL_VAL)
newArray == ArrayObj(<<>>)
\* writeArray storing the value in front of the elements
writeArrayAtFront(array, value) == ArrayObj(<<value>> \o array.elements)
\* array->elements[array->count] = value; array->count++
writeArray(array, value) == ArrayObj(Append(array.elements, value))
\* newStructDef does not touch fieldIndices; the model starts it as an empty table
newStructDef(name) == StructDefObj(name, 0, <<>>, initTable, initTable)
newBoundMethod(receiver, method) == BoundMethodObj(receiver, method)
newStruct(h, definition) ==
  StructObj(definition, [i \in 1..h[definition].fieldCount |-> NIL_VAL])

\* clockNative: the processor time is any double
MaxClock == 1
clockNative == {FLOAT_VAL(d) : d \in 0..MaxClock}

newFrame(closure, slots) == [closure |-> closure, ip |-> 1, slots |-> slots]

\* CallClosure without its comparison of argCount with the arity
CallClosureAnyArgCount(closure, argCount, stk) ==
  IF frameCount = FRAMES_MAX
    THEN Raise("Stack overflow.", <<>>)
    ELSE Go(heap, strings, globals, stk, stackTop,
            Append(Fetched, newFrame(closure, stackTop - argCount - 1)),
            openUpvalues, output)

\* the closure branch of do_CALL, shared by the bound-method branch and do_INVOKE:
\* arity check, frame limit, then the new frame; `stk' is the stack the frame sees
CallClosure(closure, argCount, stk) ==
  LET arity == heap[heap[closure].function].arity IN
  IF argCount # arity
    THEN Raise("Expected %d arguments but got %d.", <<arity, argCount>>)
  ELSE IF frameCount = FRAMES_MAX
    THEN Raise("Stack overflow.", <<>>)
  ELSE Go(heap, strings, globals, stk, stackTop,
          Append(Fetched, newFrame(closure, stackTop - argCount - 1)),
          openUpvalues, output)

\* the bound-method branch of do_CALL without its store of the receiver
CallBoundMethodKeepsCallee(bound, argCount) ==
  CallClosure(bound.method, argCount, stack)

\* the bound-method branch of do_CALL: the checks of the closure branch, then
\* vm.stackTop[-argCount - 1] = bound->receiver and the new frame
CallBoundMethod(bound, argCount) ==
  CallClosure(bound.method, argCount,
              [stack EXCEPT ![stackTop - argCount - 1] = bound.receiver])

do_CALLLastArgumentFirst(argCount) ==
  LET callee == peek(argCount) IN
  IF IS_NATIVE(callee)
    THEN \E value \in clockNative : PopPush(argCount + 1, value)
  ELSE IF IS_CLOSURE(callee)
    THEN CallClosure(AS_OBJ(callee), argCount, stack)
  ELSE IF IS_STRUCT_DEF(callee)
    THEN LET def == AS_OBJ(callee) IN
         IF argCount # heap[def].fieldCount
           THEN Raise("Expected %d arguments but got %d.", <<heap[def].fieldCount, argCount>>)
           ELSE Go(Append(heap, [newStruct(heap, def) EXCEPT
                                   !.fields = [i \in 1..argCount |-> peek(i - 1)]]),
                   strings, globals,
                   [stack EXCEPT ![stackTop - argCount - 1] = OBJ_VAL(NewAddr(heap))],
                   stackTop - argCount, Fetched, openUpvalues, output)
  ELSE IF IS_BOUND_METHOD(callee)
    THEN CallBoundMethod(heap[AS_OBJ(callee)], argCount)
  ELSE Raise("Can only call functions.", <<>>)

do_CALL(argCount) ==
  LET callee == peek(argCount) IN
  IF IS_NATIVE(callee)
    THEN \E value \in clockNative : PopPush(argCount + 1, value)
  ELSE IF IS_CLOSURE(callee)
    THEN CallClosure(AS_OBJ(callee), argCount, stack)
  ELSE IF IS_STRUCT_DEF(callee)
    THEN LET def == AS_OBJ(callee) IN
         IF argCount # heap[def].fieldCount
           THEN Raise("Expected %d arguments but got %d.", <<heap[def].fieldCount, argCount>>)
           ELSE Go(Append(heap, [newStruct(heap, def) EXCEPT
                                   !.fields = [i \in 1..argCount |-> peek(argCount - i)]]),
                   strings, globals,
                   [stack EXCEPT ![stackTop - argCount - 1] = OBJ_VAL(NewAddr(heap))],
                   stackTop - argCount, Fetched, openUpvalues, output)
  ELSE IF IS_BOUND_METHOD(callee)
    THEN CallBoundMethod(heap[AS_OBJ(callee)], argCount)
  ELSE Raise("Can only call functions.", <<>>)

\* the loop of do_CLOSURE over the operand pairs: [heap, open, upvalues]
RECURSIVE CaptureAll(_, _, _, _, _)
CaptureAll(h, open, uv, i, upvalues) ==
  IF i > Len(uv) THEN [heap |-> h, open |-> open, upvalues |-> upvalues]
  ELSE IF uv[i].isLocal # 0
    THEN LET c == captureUpvalue(h, open, CurFrame.slots + uv[i].index)
         IN  CaptureAll(c.heap, c.open, uv, i + 1, Append(upvalues, c.obj))
    ELSE CaptureAll(h, open, uv, i + 1,
                    Append(upvalues, CurClosure.upvalues[uv[i].index + 1]))

do_CLOSURE(index, uv) ==
  LET function == AS_OBJ(READ_CONSTANT(index))
      closure == NewAddr(heap)
      h1 == Append(heap, newClosure(function, heap[function].upvalueCount))
      c == CaptureAll(h1, openUpvalues, SubSeq(uv, 1, heap[function].upvalueCount), 1, <<>>)
  IN  Go([c.heap EXCEPT ![closure].upvalues = c.upvalues], strings, globals,
         [stack EXCEPT ![stackTop] = OBJ_VAL(closure)], stackTop + 1,
         Fetched, c.open, output)

do_CLOSE_UPVALUE ==
  LET c == closeUpvalues(heap, stack, openUpvalues, stackTop - 1) IN
  Go(c.heap, strings, globals, stack, stackTop - 1, Fetched, c.open, output)

\* do_RETURN closes the frame's upvalues; case OP_RETURN of the switch has no
\* such call
do_RETURN ==
  LET value == peek(0)
      c == IF COMPUTED_GOTO
             THEN closeUpvalues(heap, stack, openUpvalues, CurFrame.slots)
             ELSE [heap |-> heap, open |-> openUpvalues]
  IN  IF frameCount - 1 = 0
        THEN Leave(c.heap, strings, globals, stack, stackTop - 2, <<>>, c.open,
                   output, "INTERPRET_OK")
        ELSE Go(c.heap, strings, globals, [stack EXCEPT ![CurFrame.slots] = value],
                CurFrame.slots + 1, SubSeq(frames, 1, Len(frames) - 1), c.open, output)

\* the loop of do_ARRAY, i running from count - 1 down to 0 with the new array
\* pushed above the elements: writeArray(array, peek(i + 1))
RECURSIVE ArrayLoop(_, _, _)
ArrayLoop(array, top, i) ==
  IF i < 0 THEN array
  ELSE ArrayLoop(writeArray(array, stack[top - 1 - (i + 1)]), top, i - 1)

do_ARRAY(count) ==
  LET array == NewAddr(heap) IN
  Go(Append(heap, ArrayLoop(newArray, stackTop + 1, count - 1)), strings, globals,
     [[stack EXCEPT ![stackTop] = OBJ_VAL(array)] EXCEPT ![stackTop - count] = OBJ_VAL(array)],
     stackTop - count + 1, Fetched, openUpvalues, output)

\* the three checks do_INDEX_GET and do_INDEX_SET make after popping their operands
IndexError(arrayVal, indexVal) ==
  IF ~IS_ARRAY(arrayVal) THEN <<"Can only index arrays.", <<>>>>
  ELSE IF ~IS_INT(indexVal) THEN <<"Array index must be an integer.", <<>>>>
  ELSE IF AS_INT(indexVal) < 0 \/ AS_INT(indexVal) >= Len(heap[AS_OBJ(arrayVal)].elements)
    THEN <<"Array index %lld out of bounds [0, %d).",
           <<AS_INT(indexVal), Len(heap[AS_OBJ(arrayVal)].elements)>>>>
  ELSE <<>>

\* do_INDEX_GET answering nil for an index past the end
do_INDEX_GETNilPastEnd ==
  LET indexVal == peek(0)
      arrayVal == peek(1)
  IN  IF IS_ARRAY(arrayVal) /\ IS_INT(indexVal)
         /\ AS_INT(indexVal) >= Len(heap[AS_OBJ(arrayVal)].elements)
        THEN PopPush(2, NIL_VAL)
      ELSE IF IndexError(arrayVal, indexVal) # <<>>
        THEN Raise(IndexError(arrayVal, indexVal)[1], IndexError(arrayVal, indexVal)[2])
      ELSE PopPush(2, heap[AS_OBJ(arrayVal)].elements[AS_INT(indexVal) + 1])

do_INDEX_GET ==
  LET indexVal == peek(0)
      arrayVal == peek(1)
      error == IndexError(arrayVal, indexVal)
  IN  IF error # <<>>
        THEN Raise(error[1], error[2])
        ELSE PopPush(2, heap[AS_OBJ(arrayVal)].elements[AS_INT(indexVal) + 1])

do_INDEX_SET ==
  LET value == peek(0)
      indexVal == peek(1)
      arrayVal == peek(2)
      error == IndexError(arrayVal, indexVal)
  IN  IF error # <<>>
        THEN Raise(error[1], error[2])
        ELSE Go([heap EXCEPT ![AS_OBJ(arrayVal)].elements[AS_INT(indexVal) + 1] = value],
                strings, globals, [stack EXCEPT ![stackTop - 3] = value], stackTop - 2,
                Fetched, openUpvalues, output)

\* snprintf(buffer, ..., "%lld", i)
RECURSIVE Digits(_)
Digits(n) == IF n < 10 THEN <<48 + n>> ELSE Append(Digits(n \div 10), 48 + (n % 10))
FormatInt(i) == IF i < 0 THEN <<45>> \o Digits(0 - i) ELSE Digits(i)
\* snprintf(buffer, ..., "%g", d) for the doubles of the model, counted in halves
FormatFloat(d) ==
  IF d = NaN THEN <<110, 97, 110>>
  ELSE IF d % 2 = 0 THEN FormatInt(d \div 2)
  ELSE IF d < 0 THEN <<45>> \o Digits((0 - d) \div 2) \o <<46, 53>>
  ELSE Digits(d \div 2) \o <<46, 53>>

\* printFunction: "<script>" or "<fn name>"
printFunction(h, function) ==
  IF h[function].name = NULL THEN <<60, 115, 99, 114, 105, 112, 116, 62>>
  ELSE <<60, 102, 110, 32>> \o h[h[function].name].chars \o <<62>>

\* printValue and printObject: the characters written to stdout
RECURSIVE printValue(_, _)
RECURSIVE PrintElements(_, _, _)
RECURSIVE PrintFields(_, _, _)
PrintElements(h, elements, i) ==
  IF i > Len(elements) THEN <<>>
  ELSE (IF i > 1 THEN <<44, 32>> ELSE <<>>) \o printValue(h, elements[i])
         \o PrintElements(h, elements, i + 1)
PrintFields(h, instance, i) ==
  IF i > h[instance.definition].fieldCount THEN <<>>
  ELSE (IF i > 1 THEN <<44, 32>> ELSE <<>>)
         \o h[h[instance.definition].fieldNames[i]].chars \o <<58, 32>>
         \o printValue(h, instance.fields[i]) \o PrintFields(h, instance, i + 1)
printValue(h, value) ==
  IF IS_BOOL(value)
    THEN IF AS_BOOL(value) THEN <<116, 114, 117, 101>> ELSE <<102, 97, 108, 115, 101>>
  ELSE IF IS_NIL(value) THEN <<110, 105, 108>>
  ELSE IF IS_INT(value) THEN FormatInt(AS_INT(value))
  ELSE IF IS_FLOAT(value) THEN FormatFloat(AS_FLOAT(value))
  ELSE IF IS_PTR(value) THEN <<60, 112, 116, 114, 62>>
  ELSE LET object == h[AS_OBJ(value)] IN
       CASE object.type = "OBJ_STRING" -> object.chars
         [] object.type = "OBJ_FUNCTION" -> printFunction(h, AS_OBJ(value))
         [] object.type = "OBJ_NATIVE" ->
              <<60, 110, 97, 116, 105, 118, 101, 32, 102, 110, 62>>
         [] object.type = "OBJ_CLOSURE" -> printFunction(h, object.function)
         [] object.type = "OBJ_UPVALUE" -> <<60, 117, 112, 118, 97, 108, 117, 101, 62>>
         [] object.type = "OBJ_ARRAY" ->
              <<91>> \o PrintElements(h, object.elements, 1) \o <<93>>
         [] object.type = "OBJ_STRUCT_DEF" ->
              <<60, 116, 121, 112, 101, 32>> \o h[object.name].chars \o <<62>>
         [] object.type = "OBJ_STRUCT" ->
              h[h[object.definition].name].chars \o <<40>>
                \o PrintFields(h, object, 1) \o <<41>>
         [] object.type = "OBJ_BOUND_METHOD" -> printFunction(h, h[object.method].function)

\* printValue(pop()); printf("\n"): `output' is the sequence of lines written
do_PRINT ==
  Go(heap, strings, globals, stack, stackTop - 1, Fetched, openUpvalues,
     Append(output, printValue(heap, peek(0))))

\* valueToString(value): [heap, strings, obj]
valueToString(h, tbl, value) ==
  IF IS_INT(value) THEN copyString(h, tbl, FormatInt(AS_INT(value)))
  ELSE IF IS_FLOAT(value) THEN copyString(h, tbl, FormatFloat(AS_FLOAT(value)))
  ELSE IF IS_BOOL(value)
    THEN copyString(h, tbl, IF AS_BOOL(value) THEN <<116, 114, 117, 101>>
                                              ELSE <<102, 97, 108, 115, 101>>)
  ELSE IF IS_NIL(value) THEN copyString(h, tbl, <<110, 105, 108>>)
  ELSE IF IS_OBJ(value) /\ h[AS_OBJ(value)].type = "OBJ_STRING"
    THEN [heap |-> h, strings |-> tbl, obj |-> AS_OBJ(value)]
  ELSE copyString(h, tbl, <<60, 111, 98, 106, 101, 99, 116, 62>>)

\* concatenate copying b before a
concatenateSwapped ==
  LET b == heap[AS_OBJ(peek(0))]
      a == heap[AS_OBJ(peek(1))]
      string == takeString(heap, strings, b.chars \o a.chars)
  IN  Go(string.heap, string.strings, globals,
         [stack EXCEPT ![stackTop - 2] = OBJ_VAL(string.obj)], stackTop - 1,
         Fetched, openUpvalues, output)

concatenate ==
  LET b == heap[AS_OBJ(peek(0))]
      a == heap[AS_OBJ(peek(1))]
      string == takeString(heap, strings, a.chars \o b.chars)
  IN  Go(string.heap, string.strings, globals,
         [stack EXCEPT ![stackTop - 2] = OBJ_VAL(string.obj)], stackTop - 1,
         Fetched, openUpvalues, output)

concatenateAny ==
  LET b == valueToString(heap, strings, peek(0))
      a == valueToString(b.heap, b.strings, peek(1))
      string == takeString(a.heap, a.strings, a.heap[a.obj].chars \o a.heap[b.obj].chars)
  IN  Go(string.heap, string.strings, globals,
         [[stack EXCEPT ![stackTop] = OBJ_VAL(b.obj)] EXCEPT ![stackTop - 2] = OBJ_VAL(string.obj)],
         stackTop - 1, Fetched, openUpvalues, output)

\* The doubles that are no numbers of halves.
Inf == NaN + 1
NegInf == -Inf
IsFinite(d) == d # NaN /\ d # Inf /\ d # NegInf

\* a + b on doubles
DoubleAdd(a, b) ==
  IF a = NaN \/ b = NaN THEN NaN
  ELSE IF ~IsFinite(a) THEN (IF b = -a THEN NaN ELSE a)
  ELSE IF ~IsFinite(b) THEN b
  ELSE a + b

\* i is a value of int64_t; an int64_t operation whose result is none is
\* undefined behaviour
Int64(i) == i >= -Pow2(INT64_BITS - 1) /\ i < Pow2(INT64_BITS - 1)

\* run() after the undefined operation of an instruction that pops `n'
Undefined(n) ==
  Leave(heap, strings, globals, stack, stackTop - n, Fetched, openUpvalues, output,
        "UNDEFINED")

do_ADD ==
  IF IS_STRING(peek(0)) /\ IS_STRING(peek(1)) THEN concatenate
  ELSE IF IS_STRING(peek(0)) \/ IS_STRING(peek(1)) THEN concatenateAny
  ELSE IF IS_INT(peek(0)) /\ IS_INT(peek(1))
    THEN IF Int64(AS_INT(peek(1)) + AS_INT(peek(0)))
           THEN PopPush(2, INT_VAL(AS_INT(peek(1)) + AS_INT(peek(0))))
           ELSE Undefined(2)
  ELSE IF IS_NUMBER(peek(0)) /\ IS_NUMBER(peek(1))
    THEN PopPush(2, FLOAT_VAL(DoubleAdd(AS_NUMBER(peek(1)), AS_NUMBER(peek(0)))))
  ELSE Raise("Operands must be two numbers or two strings.", <<>>)

\* INT_VAL(a - b) with the difference one too small
do_SUBTRACTOffByOne ==
  IF IS_INT(peek(0)) /\ IS_INT(peek(1))
    THEN PopPush(2, INT_VAL(AS_INT(peek(1)) - AS_INT(peek(0)) - 1))
  ELSE Raise("Operands must be numbers.", <<>>)

do_SUBTRACT ==
  IF IS_INT(peek(0)) /\ IS_INT(peek(1))
    THEN IF Int64(AS_INT(peek(1)) - AS_INT(peek(0)))
           THEN PopPush(2, INT_VAL(AS_INT(peek(1)) - AS_INT(peek(0))))
           ELSE Undefined(2)
  ELSE IF IS_NUMBER(peek(0)) /\ IS_NUMBER(peek(1))
    THEN PopPush(2, FLOAT_VAL(DoubleAdd(AS_NUMBER(peek(1)),
                                        IF AS_NUMBER(peek(0)) = NaN THEN NaN
                                        ELSE -AS_NUMBER(peek(0)))))
  ELSE Raise("Operands must be numbers.", <<>>)

\* The halves of a * b are a whole number.
ExactProduct(a, b) == IsFinite(a) /\ IsFinite(b) => (a * b) % 2 = 0

\* a * b on doubles, for the operands ExactProduct admits
DoubleMul(a, b) ==
  IF a = NaN \/ b = NaN THEN NaN
  ELSE IF ~IsFinite(a) \/ ~IsFinite(b)
    THEN (IF a = 0 \/ b = 0 THEN NaN ELSE IF (a < 0) = (b < 0) THEN Inf ELSE NegInf)
  ELSE (a * b) \div 2

do_MULTIPLY ==
  IF IS_INT(peek(0)) /\ IS_INT(peek(1))
    THEN IF Int64(AS_INT(peek(1)) * AS_INT(peek(0)))
           THEN PopPush(2, INT_VAL(AS_INT(peek(1)) * AS_INT(peek(0))))
           ELSE Undefined(2)
  ELSE IF IS_NUMBER(peek(0)) /\ IS_NUMBER(peek(1))
    THEN PopPush(2, FLOAT_VAL(DoubleMul(AS_NUMBER(peek(1)), AS_NUMBER(peek(0)))))
  ELSE Raise("Operands must be numbers.", <<>>)

do_NEGATE ==
  IF IS_INT(peek(0))
    THEN IF Int64(-AS_INT(peek(0)))
           THEN PopPush(1, INT_VAL(-AS_INT(peek(0))))
           ELSE Undefined(1)
  ELSE IF IS_FLOAT(peek(0))
    THEN PopPush(1, FLOAT_VAL(IF AS_FLOAT(peek(0)) = NaN THEN NaN ELSE -AS_FLOAT(peek(0))))
  ELSE Raise("Operand must be a number.", <<>>)

do_NOT == PopPush(1, BOOL_VAL(isFalsey(peek(0))))

do_NOT_EQUAL == PopPush(2, BOOL_VAL(~valuesEqual(peek(1), peek(0))))

\* BINARY_OP_NUMERIC(BOOL_VAL, >)
do_GREATER ==
  IF IS_INT(peek(0)) /\ IS_INT(peek(1))
    THEN PopPush(2, BOOL_VAL(AS_INT(peek(1)) > AS_INT(peek(0))))
  ELSE IF IS_NUMBER(peek(0)) /\ IS_NUMBER(peek(1))
    THEN PopPush(2, BOOL_VAL(AS_NUMBER(peek(1)) # NaN /\ AS_NUMBER(peek(0)) # NaN
                              /\ AS_NUMBER(peek(1)) > AS_NUMBER(peek(0))))
  ELSE Raise("Operands must be numbers.", <<>>)

\* a / b on int64_t: the quotient truncated toward zero
TruncDiv(a, b) ==
  LET q == (IF a < 0 THEN -a ELSE a) \div (IF b < 0 THEN -b ELSE b)
  IN  IF (a < 0) = (b < 0) THEN q ELSE -q
\* a % b on int64_t: the remainder has the sign of a
TruncMod(a, b) == a - (b * TruncDiv(a, b))

\* INT64_MIN / -1 and INT64_MIN % -1 overflow int64_t: undefined behaviour
DivOverflows(a, b) == a = -Pow2(INT64_BITS - 1) /\ b = -1

\* The halves of a / b are a whole number, and the quotient is not the
\* negative zero, which the model's doubles lack.
ExactQuotient(a, b) ==
  /\ IsFinite(a) /\ IsFinite(b)
  /\ b # 0 => /\ TruncMod(2 * a, b) = 0
              /\ ~(a = 0 /\ b < 0)

\* a / b on doubles, for the operands ExactQuotient admits and NaN
DoubleDiv(a, b) ==
  IF a = NaN \/ b = NaN THEN NaN
  ELSE IF b = 0 THEN (IF a = 0 THEN NaN ELSE IF a > 0 THEN Inf ELSE NegInf)
  ELSE TruncDiv(2 * a, b)

do_DIVIDE ==
  IF IS_INT(peek(0)) /\ IS_INT(peek(1))
    THEN IF AS_INT(peek(0)) = 0
           THEN Raise("Division by zero.", <<>>)
         ELSE IF DivOverflows(AS_INT(peek(1)), AS_INT(peek(0)))
           THEN Leave(heap, strings, globals, stack, stackTop - 2, Fetched,
                      openUpvalues, output, "UNDEFINED")
         ELSE PopPush(2, INT_VAL(TruncDiv(AS_INT(peek(1)), AS_INT(peek(0)))))
  ELSE IF IS_NUMBER(peek(0)) /\ IS_NUMBER(peek(1))
    THEN PopPush(2, FLOAT_VAL(DoubleDiv(AS_NUMBER(peek(1)), AS_NUMBER(peek(0)))))
  ELSE Raise("Operands must be numbers.", <<>>)

do_MODULO ==
  IF ~IS_INT(peek(0)) \/ ~IS_INT(peek(1))
    THEN Raise("Operands must be integers for modulo.", <<>>)
  ELSE IF AS_INT(peek(0)) = 0
    THEN Raise("Division by zero.", <<>>)
  ELSE IF DivOverflows(AS_INT(peek(1)), AS_INT(peek(0)))
    THEN Leave(heap, strings, globals, stack, stackTop - 2, Fetched,
               openUpvalues, output, "UNDEFINED")
  ELSE PopPush(2, INT_VAL(TruncMod(AS_INT(peek(1)), AS_INT(peek(0)))))

do_INT_TO_FLOAT ==
  IF ~IS_INT(peek(0))
    THEN Raise("Expected integer for conversion.", <<>>)
    ELSE PopPush(1, FLOAT_VAL(IntToDouble(AS_INT(peek(0)))))

\* (int64_t)d: d truncated toward zero
DoubleToInt(d) == TruncDiv(d, 2)
\* the conversion of a double that is no number or is outside int64_t is
\* undefined behaviour
FitsInt64(d) ==
  /\ IsFinite(d)
  /\ DoubleToInt(d) >= -Pow2(INT64_BITS - 1)
  /\ DoubleToInt(d) < Pow2(INT64_BITS - 1)

do_FLOAT_TO_INT ==
  IF ~IS_FLOAT(peek(0))
    THEN Raise("Expected float for conversion.", <<>>)
  ELSE IF ~FitsInt64(AS_FLOAT(peek(0)))
    THEN Leave(heap, strings, globals, stack, stackTop - 1, Fetched,
               openUpvalues, output, "UNDEFINED")
  ELSE PopPush(1, INT_VAL(DoubleToInt(AS_FLOAT(peek(0)))))

\* a < b on doubles: false when either is NaN
DoubleLess(a, b) == a # NaN /\ b # NaN /\ a < b

\* BINARY_OP_NUMERIC(BOOL_VAL, <)
do_LESS ==
  IF IS_INT(peek(0)) /\ IS_INT(peek(1))
    THEN PopPush(2, BOOL_VAL(AS_INT(peek(1)) < AS_INT(peek(0))))
  ELSE IF IS_NUMBER(peek(0)) /\ IS_NUMBER(peek(1))
    THEN PopPush(2, BOOL_VAL(DoubleLess(AS_NUMBER(peek(1)), AS_NUMBER(peek(0)))))
  ELSE Raise("Operands must be numbers.", <<>>)

(***************************************************************************)
(* The superinstructions.                                                  *)
(***************************************************************************)
do_GET_LOCAL_3 == Push(stack[CurFrame.slots + 3])

do_INC_LOCAL(slot) ==
  LET val == stack[CurFrame.slots + slot] IN
  IF IS_INT(val)
    THEN IF Int64(AS_INT(val) + 1)
           THEN Go(heap, strings, globals,
                   [stack EXCEPT ![CurFrame.slots + slot] = INT_VAL(AS_INT(val) + 1)],
                   stackTop, Fetched, openUpvalues, output)
           ELSE Undefined(0)
  ELSE IF IS_FLOAT(val)
    THEN Go(heap, strings, globals,
            [stack EXCEPT ![CurFrame.slots + slot] = FLOAT_VAL(DoubleAdd(AS_FLOAT(val), 2))],
            stackTop, Fetched, openUpvalues, output)
  ELSE Raise("Operand must be a number.", <<>>)

do_ADD_LOCAL_CONST(slot, index) ==
  LET constant == READ_CONSTANT(index)
      local == stack[CurFrame.slots + slot]
  IN  IF IS_INT(local) /\ IS_INT(constant)
        THEN IF Int64(AS_INT(local) + AS_INT(constant))
               THEN Push(INT_VAL(AS_INT(local) + AS_INT(constant)))
               ELSE Undefined(0)
      ELSE IF IS_NUMBER(local) /\ IS_NUMBER(constant)
        THEN Push(FLOAT_VAL(DoubleAdd(AS_NUMBER(local), AS_NUMBER(constant))))
      ELSE Raise("Operands must be numbers.", <<>>)

do_LESS_LOCAL_CONST(slot, index) ==
  LET constant == READ_CONSTANT(index)
      local == stack[CurFrame.slots + slot]
  IN  IF IS_NUMBER(local) /\ IS_NUMBER(constant)
        THEN Push(BOOL_VAL(DoubleLess(AS_NUMBER(local), AS_NUMBER(constant))))
      ELSE Raise("Operands must be numbers.", <<>>)

do_INDEX_GET_LOCAL(slot) ==
  LET arrayVal == peek(0)
      indexVal == stack[CurFrame.slots + slot]
      error == IndexError(arrayVal, indexVal)
  IN  IF error # <<>>
        THEN Raise(error[1], error[2])
        ELSE PopPush(1, heap[AS_OBJ(arrayVal)].elements[AS_INT(indexVal) + 1])

(***************************************************************************)
(* Jumps.  A chunk is a sequence of instructions here and frame->ip counts *)
(* instructions; the operand of a jump counts bytes, as in the code.       *)
(***************************************************************************)
\* the operand bytes that follow the opcode
OperandBytes(i) ==
  CASE i.op \in {"OP_JUMP", "OP_JUMP_IF_FALSE", "OP_LOOP"} -> 2
    [] i.op \in {"OP_INVOKE", "OP_STRUCT_DEF", "OP_ADD_LOCAL_CONST",
                 "OP_LESS_LOCAL_CONST"} -> 2
    [] i.op = "OP_CLOSURE" -> 1 + (2 * Len(i.uv))
    [] i.op = "OP_NIL OP_POP" -> (2 * i.a) - 1
    [] i.op \in {"OP_CONSTANT", "OP_GET_LOCAL", "OP_SET_LOCAL", "OP_GET_GLOBAL",
                 "OP_DEFINE_GLOBAL", "OP_SET_GLOBAL", "OP_GET_UPVALUE",
                 "OP_SET_UPVALUE", "OP_CALL", "OP_IMPORT", "OP_STRUCT_FIELD",
                 "OP_GET_FIELD", "OP_SET_FIELD", "OP_ARRAY", "OP_METHOD",
                 "OP_INC_LOCAL", "OP_INDEX_GET_LOCAL"} -> 1
    [] OTHER -> 0

\* chunk->count of a chunk holding the instructions `code'.  The element
\* "OP_NIL OP_POP" stands for i.a times the bytes OP_NIL, OP_POP.
RECURSIVE ChunkCount(_)
ChunkCount(code) ==
  IF code = <<>> THEN 0
  ELSE IF Len(code) = 1 THEN 1 + OperandBytes(code[1])
  ELSE ChunkCount(SubSeq(code, 1, Len(code) \div 2))
         + ChunkCount(SubSeq(code, (Len(code) \div 2) + 1, Len(code)))

\* the byte offset in chunk->code of the k-th instruction
OffsetOf(code, k) == ChunkCount(SubSeq(code, 1, k - 1))

\* the instruction among from..to that starts at a byte offset, 0 when none
RECURSIVE StartsAt(_, _, _, _)
StartsAt(code, offset, from, to) ==
  IF from > to THEN 0
  ELSE LET k == (from + to) \div 2
           start == OffsetOf(code, k)
       IN  IF start = offset THEN k
           ELSE IF start < offset THEN StartsAt(code, offset, k + 1, to)
           ELSE StartsAt(code, offset, from, k - 1)

\* the instruction that starts at a byte offset, the end of the chunk
\* counting as one, 0 when none does
InstrAt(code, offset) == StartsAt(code, offset, 1, Len(code) + 1)

\* READ_SHORT(): the uint16_t of two operand bytes, the high byte first
READ_SHORT(hi, lo) == ((hi * 256) + lo) % 65536

\* frame->ip += delta after the operands were read.  An ip inside an
\* instruction or outside the chunk decodes bytes that are no code.
MoveIp(delta) ==
  LET code == CurFunction.code
      target == InstrAt(code, OffsetOf(code, CurFrame.ip + 1) + delta)
  IN  IF target = 0
        THEN Leave(heap, strings, globals, stack, stackTop, Fetched, openUpvalues,
                   output, "UNDEFINED")
        ELSE Go(heap, strings, globals, stack, stackTop,
                [frames EXCEPT ![Len(frames)].ip = target], openUpvalues, output)

do_JUMP(hi, lo) == MoveIp(READ_SHORT(hi, lo))

do_JUMP_IF_FALSEPops(hi, lo) ==
  IF isFalsey(peek(0))
    THEN Go(heap, strings, globals, stack, stackTop - 1,
            [frames EXCEPT ![Len(frames)].ip =
               InstrAt(CurFunction.code,
                       OffsetOf(CurFunction.code, CurFrame.ip + 1) + READ_SHORT(hi, lo))],
            openUpvalues, output)
    ELSE MoveIp(0)

do_JUMP_IF_FALSE(hi, lo) ==
  IF isFalsey(peek(0)) THEN MoveIp(READ_SHORT(hi, lo)) ELSE MoveIp(0)

do_LOOP(hi, lo) == MoveIp(-READ_SHORT(hi, lo))

do_STRUCT_DEF(fieldCount, index) ==
  LET def == [newStructDef(READ_STRING(index)) EXCEPT
                !.fieldCount = fieldCount,
                !.fieldNames = [i \in 1..fieldCount |-> NULL]]
  IN  Go(Append(heap, def), strings, globals,
         [stack EXCEPT ![stackTop] = OBJ_VAL(NewAddr(heap))], stackTop + 1,
         Fetched, openUpvalues, output)

\* the first index (from 1) of `names' holding `name', 0 when there is none
FirstIndex(names, name) ==
  IF \E i \in 1..Len(names) : names[i] = name
    THEN CHOOSE i \in 1..Len(names) :
           names[i] = name /\ \A j \in 1..(i - 1) : names[j] # name
    ELSE 0

do_STRUCT_FIELD(index) ==
  LET fieldName == READ_STRING(index)
      def == AS_OBJ(peek(0))
      i == FirstIndex(heap[def].fieldNames, NULL)
  IN  IF i = 0
        THEN Go(heap, strings, globals, stack, stackTop, Fetched, openUpvalues, output)
        ELSE Go([heap EXCEPT ![def].fieldNames[i] = fieldName,
                             ![def].fieldIndices =
                                tableSet(heap, @, fieldName, INT_VAL(i - 1)).table],
                strings, globals, stack, stackTop, Fetched, openUpvalues, output)

\* the field lookup of do_GET_FIELD and do_SET_FIELD: the index, -1 for none
FieldIndex(definition, name) ==
  IF heap[definition].fieldCount <= 8
    THEN FirstIndex(heap[definition].fieldNames, name) - 1
    ELSE LET got == tableGet(heap, heap[definition].fieldIndices, name)
         IN  IF got[1] THEN AS_INT(got[2]) ELSE -1

\* do_GET_FIELD looking among the methods before the fields
do_GET_FIELDMethodFirst(index) ==
  IF ~IS_STRUCT(peek(0))
    THEN Raise("Only struct instances have fields.", <<>>)
    ELSE LET receiver == peek(0)
             instance == heap[AS_OBJ(receiver)]
             name == READ_STRING(index)
             fieldIndex == FieldIndex(instance.definition, name)
             method == tableGet(heap, heap[instance.definition].methods, name)
         IN  IF method[1]
               THEN Go(Append(heap, newBoundMethod(receiver, AS_OBJ(method[2]))),
                       strings, globals,
                       [stack EXCEPT ![stackTop - 1] = OBJ_VAL(NewAddr(heap))],
                       stackTop, Fetched, openUpvalues, output)
             ELSE IF fieldIndex # -1
               THEN PopPush(1, instance.fields[fieldIndex + 1])
             ELSE Raise("Undefined property '%s'.", <<heap[name].chars>>)

do_GET_FIELD(index) ==
  IF ~IS_STRUCT(peek(0))
    THEN Raise("Only struct instances have fields.", <<>>)
    ELSE LET receiver == peek(0)
             instance == heap[AS_OBJ(receiver)]
             name == READ_STRING(index)
             fieldIndex == FieldIndex(instance.definition, name)
             method == tableGet(heap, heap[instance.definition].methods, name)
         IN  IF fieldIndex # -1
               THEN PopPush(1, instance.fields[fieldIndex + 1])
             ELSE IF method[1]
               THEN Go(Append(heap, newBoundMethod(receiver, AS_OBJ(method[2]))),
                       strings, globals,
                       [stack EXCEPT ![stackTop - 1] = OBJ_VAL(NewAddr(heap))],
                       stackTop, Fetched, openUpvalues, output)
             ELSE Raise("Undefined property '%s'.", <<heap[name].chars>>)

do_SET_FIELD(index) ==
  IF ~IS_STRUCT(peek(1))
    THEN Raise("Only struct instances have fields.", <<>>)
    ELSE LET instance == AS_OBJ(peek(1))
             name == READ_STRING(index)
             value == peek(0)
             fieldIndex == FieldIndex(heap[instance].definition, name)
         IN  IF fieldIndex = -1
               THEN Raise("Undefined field '%s'.", <<heap[name].chars>>)
               ELSE Go([heap EXCEPT ![instance].fields[fieldIndex + 1] = value],
                       strings, globals, [stack EXCEPT ![stackTop - 2] = value],
                       stackTop - 1, Fetched, openUpvalues, output)

do_METHOD(index) ==
  LET def == AS_OBJ(peek(1)) IN
  Go([heap EXCEPT ![def].methods = tableSet(heap, @, READ_STRING(index), peek(0)).table],
     strings, globals, stack, stackTop - 1, Fetched, openUpvalues, output)

do_INVOKE(index, argCount) ==
  LET methodName == READ_STRING(index)
      receiver == peek(argCount)
  IN  IF ~IS_STRUCT(receiver)
        THEN Raise("Only struct instances have methods.", <<>>)
        ELSE LET method == tableGet(heap, heap[heap[AS_OBJ(receiver)].definition].methods,
                                    methodName)
             IN  IF ~method[1]
                   THEN Raise("Undefined method '%s'.", <<heap[methodName].chars>>)
                   ELSE CallClosure(AS_OBJ(method[2]), argCount, stack)

\* readFile and compile are the environment's: the file is unreadable, it does
\* not compile, or compile returns `moduleFunc'.  The frame is written at
\* vm.frames[vm.frameCount] whatever frameCount is; past the end of the array
\* the behaviour is undefined and the run is followed no further.
do_IMPORT(index, readable, moduleFunc) ==
  LET path == READ_STRING(index)
      moduleClosure == NewAddr(heap)
  IN  IF ~readable
        THEN Raise("Could not open module '%s'.", <<heap[path].chars>>)
      ELSE IF moduleFunc = NULL
        THEN Raise("Error compiling module '%s'.", <<heap[path].chars>>)
      ELSE Leave(Append(heap, newClosure(moduleFunc, heap[moduleFunc].upvalueCount)),
                 strings, globals,
                 [stack EXCEPT ![stackTop] = OBJ_VAL(moduleClosure)], stackTop + 1,
                 Append(Fetched, newFrame(moduleClosure, stackTop)),
                 openUpvalues, output,
                 IF frameCount < FRAMES_MAX THEN "running" ELSE "UNDEFINED")

\* interpret(source), up to the call of run(); compile() returns Head(sources)
interpret ==
  /\ result \notin {"running", "UNDEFINED"}
  /\ sources # <<>>
  /\ sources' = Tail(sources)
  /\ program' = Head(sources)
  /\ last' = Instr("interpret", 0, 0, <<>>)
  /\ ~compiling.active
  /\ UNCHANGED <<NAN_BOXING, COMPUTED_GOTO, emitted, steps, compiling>>
  /\ LET function == Head(sources)
         closure == NewAddr(heap)
     IN  IF function = NULL
           THEN /\ result' = "INTERPRET_COMPILE_ERROR"
                /\ UNCHANGED <<heap, strings, globals, stack, stackTop, frames,
                               openUpvalues, output, errorMsg>>
           ELSE Go(Append(heap, newClosure(function, heap[function].upvalueCount)),
                   strings, globals, [stack EXCEPT ![stackTop] = OBJ_VAL(closure)],
                   stackTop + 1, Append(frames, newFrame(closure, 0)),
                   openUpvalues, output)

(***************************************************************************)
(* vm.c: initVM.  Of the natives the model registers clock.                *)
(***************************************************************************)
ClockName == <<99, 108, 111, 99, 107>>

\* defineNative(name, function) on the record vm of heap, strings, globals, stack
defineNative(vm, name, function) ==
  LET string == copyString(vm.heap, vm.strings, name)
      native == NewAddr(string.heap)
      h == Append(string.heap, NativeObj(function))
  IN  [heap    |-> h,
       strings |-> string.strings,
       globals |-> tableSet(h, vm.globals, string.obj, OBJ_VAL(native)).table,
       stack   |-> [[vm.stack EXCEPT ![0] = OBJ_VAL(string.obj)] EXCEPT ![1] = OBJ_VAL(native)]]

initVM(nanBoxing) ==
  defineNative([heap    |-> <<>>,
                strings |-> initTable,
                globals |-> initTable,
                stack   |-> [i \in 0..(STACK_MAX - 1) |-> ZeroValue(nanBoxing)]],
               ClockName, "clockNative")

\* copyString of each of `names' in turn: [heap, strings]
RECURSIVE InternAll(_, _, _)
InternAll(h, tbl, names) ==
  IF names = <<>> THEN [heap |-> h, strings |-> tbl]
  ELSE The({InternAll(string.heap, string.strings, Tail(names)) :
              string \in {copyString(h, tbl, Head(names))}})

\* the compiler's copyString of each of `names', on the VM initVM left
Interning(vm, names) == The({InternAll(v.heap, v.strings, names) : v \in {vm}})

\* the interned string with these bytes
Interned(h, tbl, chars) == tableFindString(h, tbl, chars, hashString(chars))

\* compile() is not running and has no source to compile
NotCompiling ==
  [active |-> FALSE, texts |-> <<>>, hadError |-> FALSE, errors |-> <<>>,
   undefined |-> FALSE, loops |-> {}, jumps |-> {}, statements |-> {},
   source |-> <<>>]

\* The state after initVM() and compile(): `compiled' is the heap and the
\* intern table compile() leaves, `toRun' the functions it returns, `ops'
\* the opcodes of its open chunks.
InitWith(compiled, toRun, ops) ==
  /\ NAN_BOXING \in BOOLEAN
  /\ COMPUTED_GOTO \in BOOLEAN
  /\ \E vm \in {initVM(NAN_BOXING)} : \E c \in {compiled} :
       /\ heap = c.heap
       /\ strings = c.strings
       /\ globals = vm.globals
       /\ stack = vm.stack
  /\ sources = toRun
  /\ emitted = ops
  /\ stackTop = 0
  /\ frames = <<>>
  /\ openUpvalues = <<>>
  /\ output = <<>>
  /\ result = "idle"
  /\ errorMsg = [format |-> "", args |-> <<>>]
  /\ program = NULL
  /\ steps = 0
  /\ last = NoInstr
  /\ compiling = NotCompiling

(***************************************************************************)
(* The instructions as actions.  Each draws its operands; `WellFormed...'  *)
(* is what the compiler guarantees of the instruction in an open chunk.    *)
(***************************************************************************)
MaxFields == 1
MaxUpvalues == 1
IsScript == CurFunction.name = NULL
OpenAt(slot) == \E k \in 1..Len(openUpvalues) : heap[openUpvalues[k]].location = slot

\* a one-byte operand: any byte in compiled code, 0..max in an open chunk
Operand(max) == IF OpenChunk THEN 0..max ELSE 0..255

OP_CONSTANT ==
  /\ Running
  /\ \E index \in ConstantIndexes :
       Step(Instr("OP_CONSTANT", index, 0, <<>>),
            CanPush /\ ~IsFunctionConstant(index),
            do_CONSTANT(index))

OP_NIL ==
  /\ Running
  /\ Step(Instr("OP_NIL", 0, 0, <<>>), CanPush, do_NIL)

\* a POP discards a temporary or an uncaptured local, never a parameter
OP_POP ==
  /\ Running
  /\ Step(Instr("OP_POP", 0, 0, <<>>),
          Depth >= CurFunction.arity + 2 /\ ~OpenAt(stackTop - 1),
          do_POP)

OP_GET_LOCAL ==
  /\ Running
  /\ \E slot \in LocalSlots :
       Step(Instr("OP_GET_LOCAL", slot, 0, <<>>), CanPush /\ slot < Depth, do_GET_LOCAL(slot))

OP_GET_LOCAL_0 ==
  /\ Running
  /\ Step(Instr("OP_GET_LOCAL_0", 0, 0, <<>>), CanPush, do_GET_LOCAL_0)

OP_GET_LOCAL_1 ==
  /\ Running
  /\ Step(Instr("OP_GET_LOCAL_1", 0, 0, <<>>), CanPush /\ Depth > 1, do_GET_LOCAL_1)

OP_GET_LOCAL_2 ==
  /\ Running
  /\ Step(Instr("OP_GET_LOCAL_2", 0, 0, <<>>), CanPush /\ Depth > 2, do_GET_LOCAL_2)

OP_GET_LOCAL_3 ==
  /\ Running
  /\ Step(Instr("OP_GET_LOCAL_3", 0, 0, <<>>), CanPush /\ Depth > 3, do_GET_LOCAL_3)

OP_INC_LOCAL ==
  /\ Running
  /\ \E slot \in LocalSlots :
       Step(Instr("OP_INC_LOCAL", slot, 0, <<>>), slot >= 1 /\ slot < Depth,
            do_INC_LOCAL(slot))

OP_ADD_LOCAL_CONST ==
  /\ Running
  /\ \E slot \in LocalSlots : \E index \in ConstantIndexes :
       Step(Instr("OP_ADD_LOCAL_CONST", slot, index, <<>>),
            CanPush /\ slot < Depth /\ ~IsFunctionConstant(index),
            do_ADD_LOCAL_CONST(slot, index))

OP_LESS_LOCAL_CONST ==
  /\ Running
  /\ \E slot \in LocalSlots : \E index \in ConstantIndexes :
       Step(Instr("OP_LESS_LOCAL_CONST", slot, index, <<>>),
            CanPush /\ slot < Depth /\ ~IsFunctionConstant(index),
            do_LESS_LOCAL_CONST(slot, index))

OP_INDEX_GET_LOCAL ==
  /\ Running
  /\ \E slot \in LocalSlots :
       Step(Instr("OP_INDEX_GET_LOCAL", slot, 0, <<>>), Depth >= 2 /\ slot < Depth - 1,
            do_INDEX_GET_LOCAL(slot))

OP_SET_LOCAL ==
  /\ Running
  /\ \E slot \in LocalSlots :
       Step(Instr("OP_SET_LOCAL", slot, 0, <<>>), slot >= 1 /\ slot < Depth - 1,
            do_SET_LOCAL(slot))

OP_GET_GLOBAL ==
  /\ Running
  /\ \E index \in ConstantIndexes :
       Step(Instr("OP_GET_GLOBAL", index, 0, <<>>), CanPush /\ IsStringConstant(index),
            do_GET_GLOBAL(index))

OP_DEFINE_GLOBAL ==
  /\ Running
  /\ \E index \in ConstantIndexes :
       Step(Instr("OP_DEFINE_GLOBAL", index, 0, <<>>),
            Depth >= 2 /\ IsStringConstant(index) /\ ~OpenAt(stackTop - 1),
            do_DEFINE_GLOBAL(index))

OP_SET_GLOBAL ==
  /\ Running
  /\ \E index \in ConstantIndexes :
       Step(Instr("OP_SET_GLOBAL", index, 0, <<>>), Depth >= 2 /\ IsStringConstant(index),
            do_SET_GLOBAL(index))

OP_GET_UPVALUE ==
  /\ Running
  /\ \E slot \in UpvalueSlots :
       Step(Instr("OP_GET_UPVALUE", slot, 0, <<>>), CanPush, do_GET_UPVALUE(slot))

OP_SET_UPVALUE ==
  /\ Running
  /\ \E slot \in UpvalueSlots :
       Step(Instr("OP_SET_UPVALUE", slot, 0, <<>>), Depth >= 2, do_SET_UPVALUE(slot))

OP_CALL ==
  /\ Running
  /\ \E argCount \in Operand(MaxArgs) :
       Step(Instr("OP_CALL", argCount, 0, <<>>),
            Depth >= argCount + 2 /\ (IS_STRUCT_DEF(peek(argCount)) => CanAllocate(1)),
            do_CALL(argCount))

\* the operand pairs of a CLOSURE for a function of n upvalues
UpvalueOperands(n) == [1..n -> [isLocal : {0, 1}, index : LocalSlots]]
WellFormedClosure(index, uv) ==
  /\ IsFunctionConstant(index)
  /\ heap[AS_OBJ(READ_CONSTANT(index))].name # NULL
  /\ Len(uv) = heap[AS_OBJ(READ_CONSTANT(index))].upvalueCount
  /\ \A i \in 1..Len(uv) :
       IF uv[i].isLocal # 0 THEN uv[i].index <= Depth
                            ELSE uv[i].index \in UpvalueSlots
  /\ CanPush
  /\ CanAllocate(1 + Len(uv))

OP_CLOSURE ==
  /\ Running
  /\ \E index \in ConstantIndexes : \E n \in 0..MaxUpvalues : \E uv \in UpvalueOperands(n) :
       Step(Instr("OP_CLOSURE", index, 0, uv), WellFormedClosure(index, uv),
            do_CLOSURE(index, uv))

OP_CLOSE_UPVALUE ==
  /\ Running
  /\ Step(Instr("OP_CLOSE_UPVALUE", 0, 0, <<>>), Depth >= CurFunction.arity + 2,
          do_CLOSE_UPVALUE)

\* a script ends with NIL RETURN at scope depth 0
OP_RETURN ==
  /\ Running
  /\ Step(Instr("OP_RETURN", 0, 0, <<>>),
          Depth >= 2 /\ (IsScript => Depth = 2 /\ peek(0) = NIL_VAL),
          do_RETURN)

ScriptFunctions ==
  {f \in DOMAIN heap : heap[f].type = "OBJ_FUNCTION" /\ heap[f].name = NULL}

OP_IMPORT ==
  /\ Running
  /\ \E index \in ConstantIndexes : \E readable \in BOOLEAN :
       \E moduleFunc \in IF readable THEN {NULL} \cup ScriptFunctions ELSE {NULL} :
         Step(Instr("OP_IMPORT", index, 0, <<>>),
              CanPush /\ IsStringConstant(index) /\ CanAllocate(1),
              do_IMPORT(index, readable, moduleFunc))

OP_INVOKE ==
  /\ Running
  /\ \E index \in ConstantIndexes : \E argCount \in Operand(MaxArgs) :
       Step(Instr("OP_INVOKE", index, argCount, <<>>),
            IsStringConstant(index) /\ Depth >= argCount + 2,
            do_INVOKE(index, argCount))

OP_STRUCT_DEF ==
  /\ Running
  /\ \E fieldCount \in Operand(MaxFields) : \E index \in ConstantIndexes :
       Step(Instr("OP_STRUCT_DEF", fieldCount, index, <<>>),
            CanPush /\ IsStringConstant(index) /\ CanAllocate(1),
            do_STRUCT_DEF(fieldCount, index))

OP_STRUCT_FIELD ==
  /\ Running
  /\ \E index \in ConstantIndexes :
       Step(Instr("OP_STRUCT_FIELD", index, 0, <<>>),
            /\ Depth >= 2
            /\ IsStringConstant(index)
            /\ IS_STRUCT_DEF(peek(0))
            /\ \E i \in 1..Len(heap[AS_OBJ(peek(0))].fieldNames) :
                 heap[AS_OBJ(peek(0))].fieldNames[i] = NULL,
            do_STRUCT_FIELD(index))

OP_GET_FIELD ==
  /\ Running
  /\ \E index \in ConstantIndexes :
       Step(Instr("OP_GET_FIELD", index, 0, <<>>),
            Depth >= 2 /\ IsStringConstant(index) /\ CanAllocate(1),
            do_GET_FIELD(index))

OP_SET_FIELD ==
  /\ Running
  /\ \E index \in ConstantIndexes :
       Step(Instr("OP_SET_FIELD", index, 0, <<>>), Depth >= 3 /\ IsStringConstant(index),
            do_SET_FIELD(index))

OP_TRUE ==
  /\ Running
  /\ Step(Instr("OP_TRUE", 0, 0, <<>>), CanPush, do_TRUE)

OP_FALSE ==
  /\ Running
  /\ Step(Instr("OP_FALSE", 0, 0, <<>>), CanPush, do_FALSE)

OP_EQUAL ==
  /\ Running
  /\ Step(Instr("OP_EQUAL", 0, 0, <<>>), Depth >= 3, do_EQUAL)

\* the length of the text ADD makes of an operand
TextLength(value) ==
  LET string == valueToString(heap, strings, value) IN Len(string.heap[string.obj].chars)

\* an open chunk builds strings of MaxStrLen bytes at most
OP_ADD ==
  /\ Running
  /\ Step(Instr("OP_ADD", 0, 0, <<>>),
          /\ Depth >= 3
          /\ IS_STRING(peek(0)) \/ IS_STRING(peek(1))
               => /\ TextLength(peek(0)) + TextLength(peek(1)) <= MaxStrLen
                  /\ CanAllocate(2),
          do_ADD)

OP_PRINT ==
  /\ Running
  /\ Step(Instr("OP_PRINT", 0, 0, <<>>), Depth >= 2 /\ ~OpenAt(stackTop - 1), do_PRINT)

OP_LESS ==
  /\ Running
  /\ Step(Instr("OP_LESS", 0, 0, <<>>), Depth >= 3, do_LESS)

OP_SUBTRACT ==
  /\ Running
  /\ Step(Instr("OP_SUBTRACT", 0, 0, <<>>), Depth >= 3, do_SUBTRACT)

OP_MULTIPLY ==
  /\ Running
  /\ Step(Instr("OP_MULTIPLY", 0, 0, <<>>),
          /\ Depth >= 3
          /\ IS_NUMBER(peek(0)) /\ IS_NUMBER(peek(1)) /\ ~(IS_INT(peek(0)) /\ IS_INT(peek(1)))
               => ExactProduct(AS_NUMBER(peek(1)), AS_NUMBER(peek(0))),
          do_MULTIPLY)

OP_NEGATE ==
  /\ Running
  /\ Step(Instr("OP_NEGATE", 0, 0, <<>>), Depth >= 2, do_NEGATE)

OP_NOT ==
  /\ Running
  /\ Step(Instr("OP_NOT", 0, 0, <<>>), Depth >= 2, do_NOT)

OP_NOT_EQUAL ==
  /\ Running
  /\ Step(Instr("OP_NOT_EQUAL", 0, 0, <<>>), Depth >= 3, do_NOT_EQUAL)

OP_GREATER ==
  /\ Running
  /\ Step(Instr("OP_GREATER", 0, 0, <<>>), Depth >= 3, do_GREATER)

\* the instruction at frame->ip of a chunk that is not open
Current == IF Running /\ ~OpenChunk /\ CurFrame.ip <= Len(CurFunction.code)
             THEN CurFunction.code[CurFrame.ip] ELSE NoInstr

\* jumps stand only in chunks whose code is written out
OP_JUMP ==
  /\ Current.op = "OP_JUMP"
  /\ Step(Current, FALSE, do_JUMP(Current.a, Current.b))

OP_JUMP_IF_FALSE ==
  /\ Current.op = "OP_JUMP_IF_FALSE"
  /\ Step(Current, FALSE, do_JUMP_IF_FALSE(Current.a, Current.b))

OP_LOOP ==
  /\ Current.op = "OP_LOOP"
  /\ Step(Current, FALSE, do_LOOP(Current.a, Current.b))

OP_DIVIDE ==
  /\ Running
  /\ Step(Instr("OP_DIVIDE", 0, 0, <<>>),
          /\ Depth >= 3
          /\ IS_NUMBER(peek(0)) /\ IS_NUMBER(peek(1)) /\ ~(IS_INT(peek(0)) /\ IS_INT(peek(1)))
               => ExactQuotient(AS_NUMBER(peek(1)), AS_NUMBER(peek(0))),
          do_DIVIDE)

OP_MODULO ==
  /\ Running
  /\ Step(Instr("OP_MODULO", 0, 0, <<>>), Depth >= 3, do_MODULO)

OP_INT_TO_FLOAT ==
  /\ Running
  /\ Step(Instr("OP_INT_TO_FLOAT", 0, 0, <<>>), Depth >= 2, do_INT_TO_FLOAT)

OP_FLOAT_TO_INT ==
  /\ Running
  /\ Step(Instr("OP_FLOAT_TO_INT", 0, 0, <<>>), Depth >= 2, do_FLOAT_TO_INT)

MaxElements == 2

OP_ARRAY ==
  /\ Running
  /\ \E count \in Operand(MaxElements) :
       Step(Instr("OP_ARRAY", count, 0, <<>>),
            Depth >= count + 1 /\ stackTop < STACK_MAX /\ CanAllocate(1),
            do_ARRAY(count))

OP_INDEX_GET ==
  /\ Running
  /\ Step(Instr("OP_INDEX_GET", 0, 0, <<>>), Depth >= 3, do_INDEX_GET)

OP_INDEX_SET ==
  /\ Running
  /\ Step(Instr("OP_INDEX_SET", 0, 0, <<>>), Depth >= 4, do_INDEX_SET)

OP_METHOD ==
  /\ Running
  /\ \E index \in ConstantIndexes :
       Step(Instr("OP_METHOD", index, 0, <<>>),
            /\ Depth >= 3
            /\ IsStringConstant(index)
            /\ IS_CLOSURE(peek(0))
            /\ IS_STRUCT_DEF(peek(1))
            /\ \A i \in 1..Len(heap[AS_OBJ(peek(1))].fieldNames) :
                 heap[AS_OBJ(peek(1))].fieldNames[i] # NULL,
            do_METHOD(index))

(***************************************************************************)
(* The closure-capture program, as compile() translates it:                 *)
(*   makeCounter() { count := 0                                             *)
(*                   increment() { count = count + 1  return count }        *)
(*                   return increment }                                     *)
(*   c := makeCounter()  print(c())  print(c())  print(c())                 *)
(* and the same program with print(c()) print(10 + c()) for its last line.  *)
(* count is local slot 1 of makeCounter, increment slot 2.                  *)
(***************************************************************************)
MakeCounterName == <<109, 97, 107, 101, 67, 111, 117, 110, 116, 101, 114>>
IncrementName == <<105, 110, 99, 114, 101, 109, 101, 110, 116>>
CName == <<99>>

IncrementCode ==
  <<Instr("OP_GET_UPVALUE", 0, 0, <<>>), Instr("OP_CONSTANT", 0, 0, <<>>),
    Instr("OP_ADD", 0, 0, <<>>), Instr("OP_SET_UPVALUE", 0, 0, <<>>),
    Instr("OP_POP", 0, 0, <<>>), Instr("OP_GET_UPVALUE", 0, 0, <<>>),
    Instr("OP_RETURN", 0, 0, <<>>), Instr("OP_NIL", 0, 0, <<>>),
    Instr("OP_RETURN", 0, 0, <<>>)>>

MakeCounterCode ==
  <<Instr("OP_CONSTANT", 0, 0, <<>>),
    Instr("OP_CLOSURE", 1, 0, <<[isLocal |-> 1, index |-> 1]>>),
    Instr("OP_GET_LOCAL_2", 0, 0, <<>>), Instr("OP_RETURN", 0, 0, <<>>),
    Instr("OP_NIL", 0, 0, <<>>), Instr("OP_RETURN", 0, 0, <<>>)>>

\* makeCounter() {...}  c := makeCounter()
CounterPrelude ==
  <<Instr("OP_CLOSURE", 0, 0, <<>>), Instr("OP_DEFINE_GLOBAL", 1, 0, <<>>),
    Instr("OP_GET_GLOBAL", 2, 0, <<>>), Instr("OP_CALL", 0, 0, <<>>),
    Instr("OP_DEFINE_GLOBAL", 3, 0, <<>>)>>

CounterCode ==
  CounterPrelude \o
  <<Instr("OP_GET_GLOBAL", 4, 0, <<>>), Instr("OP_CALL", 0, 0, <<>>),
    Instr("OP_PRINT", 0, 0, <<>>),
    Instr("OP_GET_GLOBAL", 5, 0, <<>>), Instr("OP_CALL", 0, 0, <<>>),
    Instr("OP_PRINT", 0, 0, <<>>),
    Instr("OP_GET_GLOBAL", 6, 0, <<>>), Instr("OP_CALL", 0, 0, <<>>),
    Instr("OP_PRINT", 0, 0, <<>>),
    Instr("OP_NIL", 0, 0, <<>>), Instr("OP_RETURN", 0, 0, <<>>)>>

CounterInSumCode ==
  CounterPrelude \o
  <<Instr("OP_GET_GLOBAL", 4, 0, <<>>), Instr("OP_CALL", 0, 0, <<>>),
    Instr("OP_PRINT", 0, 0, <<>>),
    Instr("OP_CONSTANT", 5, 0, <<>>), Instr("OP_GET_GLOBAL", 6, 0, <<>>),
    Instr("OP_CALL", 0, 0, <<>>), Instr("OP_ADD", 0, 0, <<>>),
    Instr("OP_PRINT", 0, 0, <<>>),
    Instr("OP_NIL", 0, 0, <<>>), Instr("OP_RETURN", 0, 0, <<>>)>>

CounterFunctions(i) ==
  LET increment == NewAddr(i.heap)
      makeCounter == increment + 1
      makeCounterName == Interned(i.heap, i.strings, MakeCounterName)
      c == OBJ_VAL(Interned(i.heap, i.strings, CName))
  IN  [heap    |-> i.heap \o
          <<FunctionObj(0, 1, Interned(i.heap, i.strings, IncrementName), IncrementCode,
                        <<INT_VAL(1)>>),
            FunctionObj(0, 0, makeCounterName, MakeCounterCode,
                        <<INT_VAL(0), OBJ_VAL(increment)>>),
            FunctionObj(0, 0, NULL, CounterCode,
                        <<OBJ_VAL(makeCounter), OBJ_VAL(makeCounterName),
                          OBJ_VAL(makeCounterName), c, c, c, c>>),
            FunctionObj(0, 0, NULL, CounterInSumCode,
                        <<OBJ_VAL(makeCounter), OBJ_VAL(makeCounterName),
                          OBJ_VAL(makeCounterName), c, c, INT_VAL(10), c>>)>>,
       strings |-> i.strings]

(***************************************************************************)
(* Closures and upvalues: the two programs above, and one source whose      *)
(* chunks are open.  For it compile() leaves a script function and two      *)
(* nested functions, f() of one upvalue and g(a) of none; each constant     *)
(* table holds an integer and the two functions.                            *)
(***************************************************************************)
FunctionName == <<102>>

ClosuresFunctions(i) ==
  LET f == NewAddr(i.heap)
      name == Interned(i.heap, i.strings, FunctionName)
      pool == <<INT_VAL(1), OBJ_VAL(f), OBJ_VAL(f + 1)>>
  IN  [heap    |-> i.heap \o <<FunctionObj(0, 1, name, <<>>, pool),
                                FunctionObj(1, 0, name, <<>>, pool),
                                FunctionObj(0, 0, NULL, <<>>, pool)>>,
       strings |-> i.strings]

ClosuresCompiled ==
  The({ClosuresFunctions(CounterFunctions(i)) :
         i \in {Interning(initVM(NAN_BOXING),
                          <<MakeCounterName, IncrementName, CName, FunctionName>>)}})

ClosuresEmitted ==
  {"OP_CONSTANT", "OP_POP", "OP_GET_LOCAL", "OP_SET_LOCAL", "OP_GET_UPVALUE",
   "OP_SET_UPVALUE", "OP_CALL", "OP_CLOSURE", "OP_CLOSE_UPVALUE", "OP_RETURN"}

InitClosures ==
  \/ InitWith(ClosuresCompiled, <<Len(heap)>>, ClosuresEmitted)
  \/ InitWith(ClosuresCompiled, <<Len(heap) - 4>>, {})
  \/ InitWith(ClosuresCompiled, <<Len(heap) - 3>>, {})

NextClosures ==
  \/ interpret
  \/ OP_NIL
  \/ OP_GET_LOCAL_2
  \/ OP_GET_GLOBAL
  \/ OP_DEFINE_GLOBAL
  \/ OP_ADD
  \/ OP_PRINT
  \/ OP_CONSTANT
  \/ OP_POP
  \/ OP_GET_LOCAL
  \/ OP_SET_LOCAL
  \/ OP_GET_UPVALUE
  \/ OP_SET_UPVALUE
  \/ OP_CALL
  \/ OP_CLOSURE
  \/ OP_CLOSE_UPVALUE
  \/ OP_RETURN

SpecClosures == InitClosures /\ [][NextClosures]_vars

(***************************************************************************)
(* Calls and frames: one source whose chunks are open.  compile() leaves a  *)
(* script function and two nested functions, g(a) and h(), neither with     *)
(* upvalues; each constant table holds an integer, the two functions and    *)
(* the name `m'.                                                            *)
(***************************************************************************)
MethodName == <<109>>

CallsFunctions(i) ==
  LET g == NewAddr(i.heap)
      name == Interned(i.heap, i.strings, MethodName)
      pool == <<INT_VAL(1), OBJ_VAL(g), OBJ_VAL(g + 1), OBJ_VAL(name)>>
  IN  [heap    |-> i.heap \o <<FunctionObj(1, 0, name, <<>>, pool),
                                FunctionObj(0, 0, name, <<>>, pool),
                                FunctionObj(0, 0, NULL, <<>>, pool)>>,
       strings |-> i.strings]

CallsCompiled ==
  The({CallsFunctions(i) : i \in {Interning(initVM(NAN_BOXING), <<MethodName>>)}})

CallsEmitted ==
  {"OP_CONSTANT", "OP_GET_LOCAL", "OP_CALL", "OP_CLOSURE", "OP_RETURN", "OP_IMPORT",
   "OP_INVOKE", "OP_STRUCT_DEF", "OP_METHOD", "OP_GET_FIELD"}

(***************************************************************************)
(* The struct-with-method program, as compile() translates it:             *)
(*   type Point { x: int, y: int  sum() int { return self.x + self.y } }   *)
(*   p := Point(3, 4)  print(p.sum())                                      *)
(* Constants are numbered in the order the compiler adds them.             *)
(***************************************************************************)
PointName == <<80, 111, 105, 110, 116>>
XName == <<120>>
YName == <<121>>
SumName == <<115, 117, 109>>
PName == <<112>>

\* the chunk of sum(): self is local slot 0
SumCode ==
  <<Instr("OP_GET_LOCAL_0", 0, 0, <<>>), Instr("OP_GET_FIELD", 0, 0, <<>>),
    Instr("OP_GET_LOCAL_0", 0, 0, <<>>), Instr("OP_GET_FIELD", 1, 0, <<>>),
    Instr("OP_ADD", 0, 0, <<>>), Instr("OP_RETURN", 0, 0, <<>>),
    Instr("OP_NIL", 0, 0, <<>>), Instr("OP_RETURN", 0, 0, <<>>)>>

\* the chunk of the script
PointCode ==
  <<Instr("OP_STRUCT_DEF", 2, 0, <<>>), Instr("OP_STRUCT_FIELD", 1, 0, <<>>),
    Instr("OP_STRUCT_FIELD", 2, 0, <<>>), Instr("OP_CLOSURE", 4, 0, <<>>),
    Instr("OP_METHOD", 3, 0, <<>>), Instr("OP_DEFINE_GLOBAL", 0, 0, <<>>),
    Instr("OP_GET_GLOBAL", 5, 0, <<>>), Instr("OP_CONSTANT", 6, 0, <<>>),
    Instr("OP_CONSTANT", 7, 0, <<>>), Instr("OP_CALL", 2, 0, <<>>),
    Instr("OP_DEFINE_GLOBAL", 8, 0, <<>>), Instr("OP_GET_GLOBAL", 9, 0, <<>>),
    Instr("OP_GET_FIELD", 10, 0, <<>>), Instr("OP_CALL", 0, 0, <<>>),
    Instr("OP_PRINT", 0, 0, <<>>), Instr("OP_NIL", 0, 0, <<>>),
    Instr("OP_RETURN", 0, 0, <<>>)>>

PointFunctions(i) ==
  LET sum == NewAddr(i.heap)
      point == OBJ_VAL(Interned(i.heap, i.strings, PointName))
      x == OBJ_VAL(Interned(i.heap, i.strings, XName))
      y == OBJ_VAL(Interned(i.heap, i.strings, YName))
      sumName == Interned(i.heap, i.strings, SumName)
      p == OBJ_VAL(Interned(i.heap, i.strings, PName))
  IN  [heap    |-> i.heap \o
                   <<FunctionObj(0, 0, sumName, SumCode, <<x, y>>),
                     FunctionObj(0, 0, NULL, PointCode,
                                 <<point, x, y, OBJ_VAL(sumName), OBJ_VAL(sum), point,
                                   INT_VAL(3), INT_VAL(4), p, p, OBJ_VAL(sumName)>>)>>,
       strings |-> i.strings]

PointCompiled ==
  The({PointFunctions(i) :
         i \in {Interning(initVM(NAN_BOXING), <<PointName, XName, YName, SumName, PName>>)}})

InitCalls ==
  \/ InitWith(CallsCompiled, <<Len(heap)>>, CallsEmitted)
  \/ InitWith(PointCompiled, <<Len(heap)>>, {})

NextCalls ==
  \/ interpret
  \/ OP_NIL
  \/ OP_GET_LOCAL_0
  \/ OP_GET_GLOBAL
  \/ OP_DEFINE_GLOBAL
  \/ OP_STRUCT_FIELD
  \/ OP_ADD
  \/ OP_PRINT
  \/ OP_CONSTANT
  \/ OP_GET_LOCAL
  \/ OP_CALL
  \/ OP_CLOSURE
  \/ OP_RETURN
  \/ OP_IMPORT
  \/ OP_INVOKE
  \/ OP_STRUCT_DEF
  \/ OP_METHOD
  \/ OP_GET_FIELD

SpecCalls == InitCalls /\ [][NextCalls]_vars

(***************************************************************************)
(* Arrays: one source whose script chunk is open, its constants the        *)
(* integers 0, 1 and -1; and the array-bounds program                      *)
(*   a := [10, 20, 30]  print(a[1])  print(a[3])                           *)
(* as compile() translates it.                                             *)
(***************************************************************************)
AName == <<97>>

ArraysProgramCode ==
  <<Instr("OP_CONSTANT", 0, 0, <<>>), Instr("OP_CONSTANT", 1, 0, <<>>),
    Instr("OP_CONSTANT", 2, 0, <<>>), Instr("OP_ARRAY", 3, 0, <<>>),
    Instr("OP_DEFINE_GLOBAL", 3, 0, <<>>), Instr("OP_GET_GLOBAL", 4, 0, <<>>),
    Instr("OP_CONSTANT", 5, 0, <<>>), Instr("OP_INDEX_GET", 0, 0, <<>>),
    Instr("OP_PRINT", 0, 0, <<>>), Instr("OP_GET_GLOBAL", 6, 0, <<>>),
    Instr("OP_CONSTANT", 7, 0, <<>>), Instr("OP_INDEX_GET", 0, 0, <<>>),
    Instr("OP_PRINT", 0, 0, <<>>), Instr("OP_NIL", 0, 0, <<>>),
    Instr("OP_RETURN", 0, 0, <<>>)>>

ArraysFunctions(i) ==
  LET a == OBJ_VAL(Interned(i.heap, i.strings, AName)) IN
  [heap    |-> i.heap \o
                 <<FunctionObj(0, 0, NULL, ArraysProgramCode,
                               <<INT_VAL(10), INT_VAL(20), INT_VAL(30), a, a, INT_VAL(1),
                                 a, INT_VAL(3)>>),
                   FunctionObj(0, 0, NULL, <<>>,
                               <<INT_VAL(0), INT_VAL(1), INT_VAL(-1)>>)>>,
   strings |-> i.strings]

ArraysCompiled ==
  The({ArraysFunctions(i) : i \in {Interning(initVM(NAN_BOXING), <<AName>>)}})

ArraysEmitted ==
  {"OP_CONSTANT", "OP_GET_LOCAL", "OP_ARRAY", "OP_INDEX_GET", "OP_INDEX_SET"}

InitArrays ==
  \/ InitWith(ArraysCompiled, <<Len(heap)>>, ArraysEmitted)
  \/ InitWith(ArraysCompiled, <<Len(heap) - 1>>, {})

NextArrays ==
  \/ interpret
  \/ OP_CONSTANT
  \/ OP_GET_LOCAL
  \/ OP_GET_GLOBAL
  \/ OP_DEFINE_GLOBAL
  \/ OP_ARRAY
  \/ OP_INDEX_GET
  \/ OP_INDEX_SET
  \/ OP_PRINT

SpecArrays == InitArrays /\ [][NextArrays]_vars

(***************************************************************************)
(* Strings and equality: one source whose script chunk is open, its        *)
(* constants the strings "a", "b" and "ab", the int 1 and the float 1.0;   *)
(* and the mixed-equality program                                          *)
(*   print(1 == 1.0)  print("a" == "a")  print(nil == false)               *)
(* as compile() translates it.                                             *)
(***************************************************************************)
BChars == <<98>>
ABChars == <<97, 98>>

EqualityCode ==
  <<Instr("OP_CONSTANT", 0, 0, <<>>), Instr("OP_CONSTANT", 1, 0, <<>>),
    Instr("OP_EQUAL", 0, 0, <<>>), Instr("OP_PRINT", 0, 0, <<>>),
    Instr("OP_CONSTANT", 2, 0, <<>>), Instr("OP_CONSTANT", 3, 0, <<>>),
    Instr("OP_EQUAL", 0, 0, <<>>), Instr("OP_PRINT", 0, 0, <<>>),
    Instr("OP_NIL", 0, 0, <<>>), Instr("OP_FALSE", 0, 0, <<>>),
    Instr("OP_EQUAL", 0, 0, <<>>), Instr("OP_PRINT", 0, 0, <<>>),
    Instr("OP_NIL", 0, 0, <<>>), Instr("OP_RETURN", 0, 0, <<>>)>>

StringsFunctions(i) ==
  LET a == OBJ_VAL(Interned(i.heap, i.strings, AName))
      b == OBJ_VAL(Interned(i.heap, i.strings, BChars))
      ab == OBJ_VAL(Interned(i.heap, i.strings, ABChars))
  IN  [heap    |-> i.heap \o
                     <<FunctionObj(0, 0, NULL, EqualityCode,
                                   <<INT_VAL(1), FLOAT_VAL(2), a, a>>),
                       FunctionObj(0, 0, NULL, <<>>,
                                   <<a, b, ab, INT_VAL(1), FLOAT_VAL(2)>>)>>,
       strings |-> i.strings]

StringsCompiled ==
  The({StringsFunctions(i) :
         i \in {Interning(initVM(NAN_BOXING), <<AName, BChars, ABChars>>)}})

StringsEmitted == {"OP_CONSTANT", "OP_NIL", "OP_FALSE", "OP_ADD", "OP_EQUAL"}

InitStrings ==
  \/ InitWith(StringsCompiled, <<Len(heap)>>, StringsEmitted)
  \/ InitWith(StringsCompiled, <<Len(heap) - 1>>, {})

NextStrings ==
  \/ interpret
  \/ OP_CONSTANT
  \/ OP_NIL
  \/ OP_FALSE
  \/ OP_ADD
  \/ OP_EQUAL
  \/ OP_PRINT
  \/ OP_RETURN

SpecStrings == InitStrings /\ [][NextStrings]_vars

(***************************************************************************)
(* Numbers: one source whose script chunk is open, its constants ints and  *)
(* floats around zero, the least int and a string; the program             *)
(*   x := 0.0 / 0.0  print(x == x)                                         *)
(* as compile() translates it; and, for each int of RoundTripInputs, the   *)
(* hand-written chunk CONSTANT, INT_TO_FLOAT, FLOAT_TO_INT, NIL, RETURN    *)
(* (the compiler emits neither conversion).                                *)
(***************************************************************************)
XChars == <<120>>

NotANumberCode ==
  <<Instr("OP_CONSTANT", 0, 0, <<>>), Instr("OP_CONSTANT", 1, 0, <<>>),
    Instr("OP_DIVIDE", 0, 0, <<>>), Instr("OP_DEFINE_GLOBAL", 2, 0, <<>>),
    Instr("OP_GET_GLOBAL", 3, 0, <<>>), Instr("OP_GET_GLOBAL", 4, 0, <<>>),
    Instr("OP_EQUAL", 0, 0, <<>>), Instr("OP_PRINT", 0, 0, <<>>),
    Instr("OP_NIL", 0, 0, <<>>), Instr("OP_RETURN", 0, 0, <<>>)>>

RoundTripCode ==
  <<Instr("OP_CONSTANT", 0, 0, <<>>), Instr("OP_INT_TO_FLOAT", 0, 0, <<>>),
    Instr("OP_FLOAT_TO_INT", 0, 0, <<>>),
    Instr("OP_NIL", 0, 0, <<>>), Instr("OP_RETURN", 0, 0, <<>>)>>

\* ints at and around the largest int a double holds exactly, and INT64_MAX
RoundTripInputs ==
  <<0, -1, Pow2(MANT_BITS) - 1, Pow2(MANT_BITS), -Pow2(MANT_BITS),
    Pow2(MANT_BITS) + 1, Pow2(INT64_BITS - 1) - 1>>

\* the least int of the build
MinInt == -Pow2(IF NAN_BOXING THEN INT_BITS - 1 ELSE INT64_BITS - 1)

ArithFunctions(i) ==
  LET a == OBJ_VAL(Interned(i.heap, i.strings, AName))
      x == OBJ_VAL(Interned(i.heap, i.strings, XChars))
  IN  [heap    |-> i.heap \o
                     [k \in 1..Len(RoundTripInputs) |->
                        FunctionObj(0, 0, NULL, RoundTripCode,
                                    <<INT_VAL(RoundTripInputs[k])>>)] \o
                     <<FunctionObj(0, 0, NULL, NotANumberCode,
                                   <<FLOAT_VAL(0), FLOAT_VAL(0), x, x, x>>),
                       FunctionObj(0, 0, NULL, <<>>,
                                   <<INT_VAL(0), INT_VAL(2), INT_VAL(-1), INT_VAL(7),
                                     INT_VAL(-7), INT_VAL(MinInt), FLOAT_VAL(0),
                                     FLOAT_VAL(3), a>>)>>,
       strings |-> i.strings]

ArithCompiled ==
  The({ArithFunctions(i) : i \in {Interning(initVM(NAN_BOXING), <<AName, XChars>>)}})

ArithEmitted ==
  {"OP_CONSTANT", "OP_DIVIDE", "OP_MODULO", "OP_INT_TO_FLOAT", "OP_FLOAT_TO_INT",
   "OP_EQUAL"}

InitArith ==
  \E k \in 0..(Len(RoundTripInputs) + 1) :
    InitWith(ArithCompiled, <<Len(heap) - k>>, IF k = 0 THEN ArithEmitted ELSE {})

NextArith ==
  \/ interpret
  \/ OP_CONSTANT
  \/ OP_NIL
  \/ OP_DIVIDE
  \/ OP_MODULO
  \/ OP_INT_TO_FLOAT
  \/ OP_FLOAT_TO_INT
  \/ OP_EQUAL
  \/ OP_GET_GLOBAL
  \/ OP_DEFINE_GLOBAL
  \/ OP_PRINT
  \/ OP_RETURN

SpecArith == InitArith /\ [][NextArith]_vars

(***************************************************************************)
(* Globals: a REPL session, each line a source of its own as compile()     *)
(* translates it,                                                          *)
(*   x = 1    print(x)    x = 1    x := 2    x = 3    print(x)             *)
(* and a session of two lines whose script chunks are open, their          *)
(* constants the ints 1 and 2 and the names x and y.                       *)
(***************************************************************************)
YChars == <<121>>

\* x = 1 and x = 3: the value, SET_GLOBAL, POP
AssignCode ==
  <<Instr("OP_CONSTANT", 0, 0, <<>>), Instr("OP_SET_GLOBAL", 1, 0, <<>>),
    Instr("OP_POP", 0, 0, <<>>),
    Instr("OP_NIL", 0, 0, <<>>), Instr("OP_RETURN", 0, 0, <<>>)>>

\* x := 2
DeclareCode ==
  <<Instr("OP_CONSTANT", 0, 0, <<>>), Instr("OP_DEFINE_GLOBAL", 1, 0, <<>>),
    Instr("OP_NIL", 0, 0, <<>>), Instr("OP_RETURN", 0, 0, <<>>)>>

\* print(x)
PrintGlobalCode ==
  <<Instr("OP_GET_GLOBAL", 0, 0, <<>>), Instr("OP_PRINT", 0, 0, <<>>),
    Instr("OP_NIL", 0, 0, <<>>), Instr("OP_RETURN", 0, 0, <<>>)>>

GlobalsFunctions(i) ==
  LET x == OBJ_VAL(Interned(i.heap, i.strings, XChars))
      y == OBJ_VAL(Interned(i.heap, i.strings, YChars))
  IN  [heap    |-> i.heap \o
                     <<FunctionObj(0, 0, NULL, AssignCode, <<INT_VAL(1), x>>),
                       FunctionObj(0, 0, NULL, PrintGlobalCode, <<x>>),
                       FunctionObj(0, 0, NULL, DeclareCode, <<INT_VAL(2), x>>),
                       FunctionObj(0, 0, NULL, AssignCode, <<INT_VAL(3), x>>),
                       FunctionObj(0, 0, NULL, <<>>, <<INT_VAL(1), INT_VAL(2), x, y>>)>>,
       strings |-> i.strings]

GlobalsCompiled ==
  The({GlobalsFunctions(i) : i \in {Interning(initVM(NAN_BOXING), <<XChars, YChars>>)}})

GlobalsEmitted ==
  {"OP_CONSTANT", "OP_POP", "OP_GET_GLOBAL", "OP_DEFINE_GLOBAL", "OP_SET_GLOBAL"}

\* the lines of the session, as addresses of their functions
SessionLines(top) == <<top - 4, top - 3, top - 4, top - 2, top - 1, top - 3>>

InitGlobals ==
  \/ InitWith(GlobalsCompiled, <<Len(heap), Len(heap)>>, GlobalsEmitted)
  \/ InitWith(GlobalsCompiled, SessionLines(Len(heap)), {})

NextGlobals ==
  \/ interpret
  \/ OP_CONSTANT
  \/ OP_NIL
  \/ OP_POP
  \/ OP_GET_GLOBAL
  \/ OP_DEFINE_GLOBAL
  \/ OP_SET_GLOBAL
  \/ OP_PRINT
  \/ OP_RETURN

SpecGlobals == InitGlobals /\ [][NextGlobals]_vars

(***************************************************************************)
(* compiler.c.  A source is given as the sequence of its statements, a     *)
(* statement with a braced body as its head, the statements of the body    *)
(* and the closing brace.  compile() takes one of them at a step.          *)
(***************************************************************************)
UINT8_MAX == 255
UINT8_COUNT == UINT8_MAX + 1
UINT16_MAX == 65535

\* the expressions
Number(value) == [kind |-> "number", value |-> value]
Literal(name) == [kind |-> "literal", name |-> name]
Variable(name) == [kind |-> "variable", name |-> name]
Binary(left, operator, right) ==
  [kind |-> "binary", left |-> left, operator |-> operator, right |-> right]

\* the statements:  name := value,  name = value,  an expression,
\* for condition {,  if condition {,  } else {,  {,  and }
VarDecl(name, value) == [kind |-> "var", name |-> name, value |-> value]
Assign(name, value) == [kind |-> "assign", name |-> name, value |-> value]
ExprStmt(value) == [kind |-> "expression", value |-> value]
For(condition) == [kind |-> "for", condition |-> condition]
If(condition) == [kind |-> "if", condition |-> condition]
Else == [kind |-> "else"]
Open == [kind |-> "block"]
Close == [kind |-> "}"]
\* type name {
TypeDecl(name) == [kind |-> "type", name |-> name]
\* name: type  inside it
Field(name) == [kind |-> "field", name |-> name]
\* name() {
Fn(name) == [kind |-> "function", name |-> name]
\* name() {  inside a type declaration
Method(name) == [kind |-> "method", name |-> name]
\* name(arguments)
CallStmt(name, arguments) == [kind |-> "call", name |-> name, arguments |-> arguments]
\* import "path"
Import(path) == [kind |-> "import", path |-> path]
\* count expression statements  nil  in a row, count > 0
Nils(count) == [kind |-> "nils", count |-> count]

Local(name, depth) == [name |-> name, depth |-> depth, isCaptured |-> FALSE]

TYPE_SCRIPT == "TYPE_SCRIPT"

TYPE_FUNCTION == "TYPE_FUNCTION"

TYPE_METHOD == "TYPE_METHOD"

SelfChars == <<115, 101, 108, 102>>

\* initCompiler: a new function, named by the token parser.previous unless
\* it is the script, and slot 0 for internal use
initCompiler(compiler, type, previous) ==
  The({[c EXCEPT !.heap = Append(string.heap,
                                  FunctionObj(0, 0, IF type # TYPE_SCRIPT THEN string.obj
                                                    ELSE NULL, <<>>, <<>>)),
                 !.strings = string.strings,
                 !.compilers = Append(@, [function   |-> NewAddr(string.heap),
                                          type       |-> type,
                                          code       |-> <<>>,
                                          constants  |-> <<>>,
                                          locals     |->
                                            <<Local(IF type = TYPE_METHOD THEN SelfChars
                                                    ELSE <<>>, 0)>>,
                                          upvalues   |-> <<>>,
                                          scopeDepth |-> 0])]
        : <<c, string>> \in {<<c, IF type # TYPE_SCRIPT
                                    THEN copyString(c.heap, c.strings, previous)
                                    ELSE [heap |-> c.heap, strings |-> c.strings]>>
                               : c \in {compiler}}})

\* The state of compile(source) at its start, `texts' being the sources to
\* compile after this one: the statements not yet parsed, the parser's
\* flags and the errors it reported, the heap and the intern table, the
\* Compiler structs, the innermost last, and the statements the parser is
\* inside, the innermost last.  `loops' notes, for the properties, the for
\* loops compiled: the function, the first instruction, the JUMP_IF_FALSE,
\* the instruction after the loop, and localCount at its start; `jumps' the
\* jumps whose operand was written: the function, the jump and its target;
\* `statements' the statements compiled: the function, the first instruction
\* and localCount at its start;
\* `source' the whole source; `scanner' is, for a source given as its
\* tokens, the tokens not scanned yet, `current' and `previous' are
\* parser.current and parser.previous.
Compilation(h, tbl, source, texts) ==
  [active |-> TRUE, texts |-> texts, rest |-> source, heap |-> h, strings |-> tbl,
   hadError |-> FALSE, panicMode |-> FALSE, errors |-> <<>>, undefined |-> FALSE,
   compilers |-> <<>>, open |-> <<>>, loops |-> {}, jumps |-> {}, statements |-> {},
   source |-> source,
   scanner |-> <<>>, current |-> [type |-> "TOKEN_EOF", value |-> <<>>],
   previous |-> [type |-> "TOKEN_EOF", value |-> <<>>]]

\* `current'
Cur(compiler) == The({c.compilers[Len(c.compilers)] : c \in {compiler}})

\* errorAt: reports unless in panic mode
errorNotRecorded(compiler, message) ==
  The({IF c.panicMode THEN c
       ELSE [c EXCEPT !.panicMode = TRUE, !.errors = Append(@, message)]
        : c \in {compiler}})

error(compiler, message) ==
  The({IF c.panicMode THEN c
       ELSE [c EXCEPT !.panicMode = TRUE, !.hadError = TRUE,
                      !.errors = Append(@, message)]
        : c \in {compiler}})

\* emitByte for the opcode and each operand of one instruction
emit(compiler, i) ==
  The({[c EXCEPT !.compilers[Len(c.compilers)].code = Append(@, i)] : c \in {compiler}})
emitByte(c, op) == emit(c, Instr(op, 0, 0, <<>>))
emitBytes(c, op, operand) == emit(c, Instr(op, operand, 0, <<>>))

\* currentChunk()->count
Count(c) == ChunkCount(Cur(c).code)

\* the note that the operand of the jump to be emitted next, or of the one
\* whose operand is at `offset', is written
Jumps(c, at, to) ==
  [c EXCEPT !.jumps = @ \cup {[function |-> Cur(c).function, at |-> at, to |-> to]}]

emitLoopOffByOne(compiler, loopStart) ==
  The({emit(Jumps(IF offset >= UINT16_MAX THEN error(c, "Loop body too large.") ELSE c,
                  Len(Cur(c).code) + 1, InstrAt(Cur(c).code, loopStart)),
            Instr("OP_LOOP", (offset \div 256) % 256, offset % 256, <<>>))
        : <<c, offset>> \in {<<c, (Count(c) + 1) - loopStart + 2>> : c \in {compiler}}})

emitLoop(compiler, loopStart) ==
  The({emit(Jumps(IF offset > UINT16_MAX THEN error(c, "Loop body too large.") ELSE c,
                  Len(Cur(c).code) + 1, InstrAt(Cur(c).code, loopStart)),
            Instr("OP_LOOP", (offset \div 256) % 256, offset % 256, <<>>))
        : <<c, offset>> \in {<<c, (Count(c) + 1) - loopStart + 2>> : c \in {compiler}}})

\* [c, offset]: the offset of the operand to patch
emitJump(compiler, instruction) ==
  The({[c |-> c, offset |-> Count(c) - 2]
        : c \in {emit(compiler, Instr(instruction, 255, 255, <<>>))}})

emitReturn(c) == emitByte(emitByte(c, "OP_NIL"), "OP_RETURN")

\* [c, constant]; addConstant appends the value whatever the count
makeConstant(compiler, value) ==
  The({IF Len(Cur(c).constants) > UINT8_COUNT
         THEN [c |-> error(c, "Too many constants in one chunk."), constant |-> 0]
         ELSE [c |-> c, constant |-> Len(Cur(c).constants) - 1]
        : c \in {[c0 EXCEPT !.compilers[Len(c0.compilers)].constants = Append(@, value)]
                   : c0 \in {compiler}}})

emitConstant(c, value) ==
  The({emitBytes(made.c, "OP_CONSTANT", made.constant) : made \in {makeConstant(c, value)}})

patchJumpLowByteFirst(compiler, offset) ==
  The({[Jumps(IF jump > UINT16_MAX THEN error(c, "Too much code to jump over.") ELSE c,
              InstrAt(Cur(c).code, offset - 1), Len(Cur(c).code) + 1)
          EXCEPT !.compilers[Len(c.compilers)].code[InstrAt(Cur(c).code, offset - 1)] =
                   [@ EXCEPT !.a = jump % 256, !.b = (jump \div 256) % 256]]
        : <<c, jump>> \in {<<c, Count(c) - offset - 2>> : c \in {compiler}}})

\* code[offset] and code[offset + 1] are the operand of the jump that starts
\* one byte before
patchJump(compiler, offset) ==
  The({[Jumps(IF jump > UINT16_MAX THEN error(c, "Too much code to jump over.") ELSE c,
              InstrAt(Cur(c).code, offset - 1), Len(Cur(c).code) + 1)
          EXCEPT !.compilers[Len(c.compilers)].code[InstrAt(Cur(c).code, offset - 1)] =
                   [@ EXCEPT !.a = (jump \div 256) % 256, !.b = jump % 256]]
        : <<c, jump>> \in {<<c, Count(c) - offset - 2>> : c \in {compiler}}})

beginScope(compiler) ==
  The({[c EXCEPT !.compilers[Len(c.compilers)].scopeDepth = @ + 1] : c \in {compiler}})

\* the locals of the scope that ends are popped, the last declared first,
\* down to the last one of an enclosing scope
PopLocals(compiler) ==
  The({[c EXCEPT !.compilers[Len(c.compilers)].locals = SubSeq(locals, 1, kept),
                 !.compilers[Len(c.compilers)].code =
                   @ \o [k \in 1..(Len(locals) - kept) |->
                           Instr(IF locals[Len(locals) + 1 - k].isCaptured
                                   THEN "OP_CLOSE_UPVALUE" ELSE "OP_POP", 0, 0, <<>>)]]
        : <<c, locals, kept>> \in
            {<<c, Cur(c).locals,
               Cardinality({i \in 1..Len(Cur(c).locals) :
                              \E j \in i..Len(Cur(c).locals) :
                                Cur(c).locals[j].depth <= Cur(c).scopeDepth})>>
               : c \in {compiler}}})

endScope(compiler) ==
  The({PopLocals([c EXCEPT !.compilers[Len(c.compilers)].scopeDepth = @ - 1])
        : c \in {compiler}})

\* [c, constant]
identifierConstant(compiler, name) ==
  The({makeConstant([c EXCEPT !.heap = string.heap, !.strings = string.strings],
                    OBJ_VAL(string.obj))
        : <<c, string>> \in {<<c, copyString(c.heap, c.strings, name)>> : c \in {compiler}}})

\* the slots of the locals of this name
LocalsNamed(c, level, name) ==
  {i \in 1..Len(c.compilers[level].locals) : c.compilers[level].locals[i].name = name}

\* [c, arg]: the slot of the innermost local of this name, -1 when none
resolveLocal(compiler, level, name) ==
  The({IF found = {} THEN [c |-> c, arg |-> -1]
       ELSE The({[c   |-> IF c.compilers[level].locals[i].depth = -1
                            THEN error(c, "Can't read local variable in its own initializer.")
                            ELSE c,
                  arg |-> i - 1]
                  : i \in {CHOOSE i \in found : \A j \in found : j <= i}})
        : <<c, found>> \in {<<c, LocalsNamed(c, level, name)>> : c \in {compiler}}})

addLocalOffByOne(compiler, name) ==
  The({IF Len(Cur(c).locals) = UINT8_MAX
         THEN error(c, "Too many local variables in function.")
         ELSE [c EXCEPT !.compilers[Len(c.compilers)].locals = Append(@, Local(name, -1))]
        : c \in {compiler}})

addLocal(compiler, name) ==
  The({IF Len(Cur(c).locals) = UINT8_COUNT
         THEN error(c, "Too many local variables in function.")
         ELSE [c EXCEPT !.compilers[Len(c.compilers)].locals = Append(@, Local(name, -1))]
        : c \in {compiler}})

markInitialized(compiler) ==
  The({IF Cur(c).scopeDepth = 0 THEN c
       ELSE [c EXCEPT !.compilers[Len(c.compilers)].locals[Len(Cur(c).locals)].depth =
                        Cur(c).scopeDepth]
        : c \in {compiler}})

\* the slots of the upvalues of a function that are this one
UpvaluesLike(c, level, index, isLocal) ==
  {i \in 1..Len(c.compilers[level].upvalues) :
     c.compilers[level].upvalues[i] = [isLocal |-> isLocal, index |-> index]}

\* [c, arg]
addUpvalue(compiler, level, index, isLocal) ==
  The({IF found # {} THEN [c |-> c, arg |-> (CHOOSE i \in found : \A j \in found : i <= j) - 1]
       ELSE IF Len(c.compilers[level].upvalues) = UINT8_COUNT
         THEN [c |-> error(c, "Too many closure variables in function."), arg |-> 0]
       ELSE [c   |-> [c EXCEPT !.compilers[level].upvalues =
                                 Append(@, [isLocal |-> isLocal, index |-> index])],
             arg |-> Len(c.compilers[level].upvalues)]
        : <<c, found>> \in {<<c, UpvaluesLike(c, level, index, isLocal)>> : c \in {compiler}}})

\* [c, arg]: compilers[level - 1] is the enclosing one of compilers[level]
RECURSIVE resolveUpvalue(_, _, _)
resolveUpvalue(compiler, level, name) ==
  IF level = 1 THEN [c |-> compiler, arg |-> -1]
  ELSE The({IF local.arg # -1
              THEN addUpvalue([local.c EXCEPT !.compilers[level - 1].locals[local.arg + 1]
                                                 .isCaptured = TRUE],
                              level, local.arg, TRUE)
              ELSE The({IF upvalue.arg # -1
                          THEN addUpvalue(upvalue.c, level, upvalue.arg, FALSE)
                          ELSE upvalue
                         : upvalue \in {resolveUpvalue(local.c, level - 1, name)}})
             : local \in {resolveLocal(compiler, level - 1, name)}})

\* [c, arg, getOp, setOp]: the local, the upvalue or the global of a name
Resolve(compiler, name) ==
  The({IF local.arg # -1
         THEN [c |-> local.c, arg |-> local.arg,
               getOp |-> "OP_GET_LOCAL", setOp |-> "OP_SET_LOCAL"]
         ELSE The({IF upvalue.arg # -1
                     THEN [c |-> upvalue.c, arg |-> upvalue.arg,
                           getOp |-> "OP_GET_UPVALUE", setOp |-> "OP_SET_UPVALUE"]
                     ELSE The({[c |-> global.c, arg |-> global.constant,
                                getOp |-> "OP_GET_GLOBAL", setOp |-> "OP_SET_GLOBAL"]
                                : global \in {identifierConstant(upvalue.c, name)}})
                    : upvalue \in {resolveUpvalue(local.c, Len(local.c.compilers), name)}})
        : local \in {The({resolveLocal(c, Len(c.compilers), name) : c \in {compiler}})}})

RECURSIVE expression(_, _)

literal(c, name) ==
  CASE name = "false" -> emitByte(c, "OP_FALSE")
    [] name = "nil"   -> emitByte(c, "OP_NIL")
    [] name = "true"  -> emitByte(c, "OP_TRUE")

number(c, value) == emitConstant(c, INT_VAL(value))

\* the reading branch of namedVariable
namedVariable(compiler, name) ==
  The({IF var.getOp = "OP_GET_LOCAL" /\ var.arg <= 3
         THEN emitByte(var.c, CASE var.arg = 0 -> "OP_GET_LOCAL_0"
                                [] var.arg = 1 -> "OP_GET_LOCAL_1"
                                [] var.arg = 2 -> "OP_GET_LOCAL_2"
                                [] var.arg = 3 -> "OP_GET_LOCAL_3")
         ELSE emitBytes(var.c, var.getOp, var.arg)
        : var \in {Resolve(compiler, name)}})

binary(c, e) ==
  emitByte(expression(expression(c, e.left), e.right),
           CASE e.operator = "==" -> "OP_EQUAL"
             [] e.operator = "<"  -> "OP_LESS"
             [] e.operator = "+"  -> "OP_ADD"
             [] e.operator = "/"  -> "OP_DIVIDE"
             [] e.operator = "%"  -> "OP_MODULO")

expression(c, e) ==
  CASE e.kind = "number"   -> number(c, e.value)
    [] e.kind = "literal"  -> literal(c, e.name)
    [] e.kind = "variable" -> namedVariable(c, e.name)
    [] e.kind = "binary"   -> binary(c, e)

\* the parser enters the braces of a statement
Enter(c, statement) == [c EXCEPT !.open = Append(@, statement)]
\* the statement whose braces the parser is in, and the parser outside them
Inner(compiler) == The({c.open[Len(c.open)] : c \in {compiler}})
Outside(c) == [c EXCEPT !.open = SubSeq(@, 1, Len(@) - 1)]

\* forStatement up to block()
forStatement(compiler, s) ==
  The({The({Enter(beginScope(emitByte(exitJump.c, "OP_POP")),
                  [kind      |-> "for",
                   loopStart |-> Count(c),
                   exitJump  |-> exitJump.offset,
                   function  |-> Cur(c).function,
                   start     |-> Len(Cur(c).code) + 1,
                   exit      |-> Len(Cur(exitJump.c).code),
                   locals    |-> Len(Cur(c).locals)])
             : exitJump \in {emitJump(expression(c, s.condition), "OP_JUMP_IF_FALSE")}})
        : c \in {beginScope(compiler)}})

\* forStatement after block()
forStatementEnd(compiler) ==
  The({The({[end EXCEPT !.loops = @ \cup {[function |-> Inner(c).function,
                                            start    |-> Inner(c).start,
                                            exit     |-> Inner(c).exit,
                                            after    |-> Len(Cur(end).code) + 1,
                                            locals   |-> Inner(c).locals]}]
             : end \in {endScope(emitByte(patchJump(emitLoop(endScope(Outside(c)),
                                                             Inner(c).loopStart),
                                                    Inner(c).exitJump),
                                          "OP_POP"))}})
        : c \in {compiler}})

\* ifStatement up to the block() of its then branch
ifStatement(compiler, s) ==
  The({Enter(beginScope(emitByte(thenJump.c, "OP_POP")),
             [kind |-> "if", thenJump |-> thenJump.offset])
        : thenJump \in {emitJump(expression(compiler, s.condition), "OP_JUMP_IF_FALSE")}})

\* ifStatement from the end of the then branch to the else that may follow:
\* [c, offset] of the jump over the else branch
ifStatementThenEnd(compiler) ==
  The({The({[c      |-> emitByte(patchJump(elseJump.c, Inner(c).thenJump), "OP_POP"),
             offset |-> elseJump.offset]
             : elseJump \in {emitJump(endScope(Outside(c)), "OP_JUMP")}})
        : c \in {compiler}})

\* ifStatement from there to the block() of its else branch
ifStatementElse(compiler) ==
  The({Enter(beginScope(elseJump.c), [kind |-> "else", elseJump |-> elseJump.offset])
        : elseJump \in {ifStatementThenEnd(compiler)}})

\* ifStatement from there to its end, no else following
ifStatementEnd(compiler) ==
  The({patchJump(elseJump.c, elseJump.offset) : elseJump \in {ifStatementThenEnd(compiler)}})

\* ifStatement after the block() of its else branch
ifStatementElseEnd(compiler) ==
  The({patchJump(endScope(Outside(c)), Inner(c).elseJump) : c \in {compiler}})

expressionStatement(c, e) == emitByte(expression(c, e), "OP_POP")

\* name := value
varDeclaration(compiler, s) ==
  The({IF Cur(c).scopeDepth > 0
         THEN markInitialized(addLocal(c, s.name))
         ELSE The({emitBytes(global.c, "OP_DEFINE_GLOBAL", global.constant)
                    : global \in {identifierConstant(c, s.name)}})
        : c \in {expression(compiler, s.value)}})

\* name = value
assignment(compiler, s) ==
  The({emitByte(emitBytes(var.c, var.setOp, var.arg), "OP_POP")
        : var \in {Resolve(expression(compiler, s.value), s.name)}})

\* the arguments from..to of a call, the uint8_t argCount being the number
\* of arguments before, modulo 256
RECURSIVE Arguments(_, _, _, _)
Arguments(compiler, arguments, from, to) ==
  IF from > to THEN compiler
  ELSE IF from = to
    THEN The({IF (from - 1) % 256 = 255
                THEN error(c, "Can't have more than 255 arguments.") ELSE c
               : c \in {expression(compiler, arguments[from])}})
  ELSE The({Arguments(c, arguments, ((from + to) \div 2) + 1, to)
             : c \in {Arguments(compiler, arguments, from, (from + to) \div 2)}})

\* [c, argCount]
argumentList(compiler, arguments) ==
  [c |-> Arguments(compiler, arguments, 1, Len(arguments)),
   argCount |-> Len(arguments) % 256]

\* name(arguments)
callStatement(compiler, s) ==
  The({emitByte(emitBytes(args.c, "OP_CALL", args.argCount), "OP_POP")
        : args \in {argumentList(namedVariable(compiler, s.name), s.arguments)}})

\* [c, function]: the chunk is the function's, `current' the enclosing one
endCompiler(compiler) ==
  The({[c |-> [c EXCEPT !.heap[Cur(c).function].code = Cur(c).code,
                        !.heap[Cur(c).function].constants = Cur(c).constants,
                        !.heap[Cur(c).function].upvalueCount = Len(Cur(c).upvalues),
                        !.compilers = SubSeq(@, 1, Len(@) - 1)],
        function |-> Cur(c).function]
        : c \in {emitReturn(compiler)}})

\* name() {  up to block(); parser.previous is the ) when initCompiler names
\* the function
functionDeclaration(compiler, s) ==
  The({Enter(beginScope([c EXCEPT !.heap = [string.heap EXCEPT ![Cur(c).function].name =
                                                                        string.obj],
                                  !.strings = string.strings]),
             [kind |-> "function", name |-> s.name])
        : <<c, string>> \in
            {<<c, copyString(c.heap, c.strings, s.name)>>
               : c \in {initCompiler(IF Cur(compiler).scopeDepth > 0
                                       THEN markInitialized(addLocal(compiler, s.name))
                                       ELSE compiler,
                                     TYPE_FUNCTION, <<41>>)}}})

\* the operand bytes of OP_CLOSURE for the upvalues that are locals only
UpvalueBytesOfLocals(upvalues) ==
  [i \in 1..Cardinality({k \in 1..Len(upvalues) : upvalues[k].isLocal}) |->
     [isLocal |-> 1, index |-> upvalues[i].index]]

\* the two operand bytes of OP_CLOSURE for each upvalue
UpvalueBytes(upvalues) ==
  [i \in 1..Len(upvalues) |-> [isLocal |-> IF upvalues[i].isLocal THEN 1 ELSE 0,
                               index   |-> upvalues[i].index]]

\* name() { ... }  after block()
functionDeclarationEnd(compiler) ==
  The({The({IF Cur(made.c).scopeDepth = 0
              THEN The({emitBytes(global.c, "OP_DEFINE_GLOBAL", global.constant)
                         : global \in {identifierConstant(made.c, Inner(c).name)}})
              ELSE made.c
             : made \in {The({[c        |-> emit(constant.c,
                                                  Instr("OP_CLOSURE", constant.constant, 0,
                                                        UpvalueBytes(Cur(c).upvalues))),
                                constant |-> constant.constant]
                                : constant \in {The({makeConstant(end.c, OBJ_VAL(end.function))
                                                      : end \in {endCompiler(Outside(c))}})}})}})
        : c \in {compiler}})

\* typeDeclaration up to the loop over the fields
typeDeclaration(compiler, s) ==
  The({Enter(made.c, [kind         |-> "type",
                      name         |-> s.name,
                      nameConstant |-> made.constant,
                      fieldCount   |-> 0,
                      fieldNames   |-> <<>>])
        : made \in {identifierConstant(compiler, s.name)}})

\* One round of the loop: a field.  fieldNames has 256 elements, and a
\* write behind the last one or before the first one is undefined.
typeField(compiler, s) ==
  The({[(IF Inner(c).fieldCount + 1 > 255
           THEN error(c, "Can't have more than 255 fields in a struct.") ELSE c)
          EXCEPT !.heap = string.heap,
                 !.strings = string.strings,
                 !.undefined = @ \/ Inner(c).fieldCount >= 256 \/ Inner(c).fieldCount < 0,
                 !.open[Len(c.open)].fieldCount = @ + 1,
                 !.open[Len(c.open)].fieldNames =
                   IF Inner(c).fieldCount >= 256 \/ Inner(c).fieldCount < 0 THEN @
                   ELSE IF Inner(c).fieldCount < Len(@)
                     THEN [@ EXCEPT ![Inner(c).fieldCount + 1] = string.obj]
                   ELSE Append(@, string.obj)]
        : <<c, string>> \in {<<c, copyString(c.heap, c.strings, s.name)>> : c \in {compiler}}})

\* OP_STRUCT_FIELD for the fields from..to
RECURSIVE StructFields(_, _, _, _)
StructFields(compiler, fieldNames, from, to) ==
  IF from > to THEN compiler
  ELSE IF from = to
    THEN The({emitBytes(made.c, "OP_STRUCT_FIELD", made.constant)
               : made \in {makeConstant(compiler, OBJ_VAL(fieldNames[from]))}})
  ELSE The({StructFields(c, fieldNames, ((from + to) \div 2) + 1, to)
             : c \in {StructFields(compiler, fieldNames, from, (from + to) \div 2)}})

\* OP_STRUCT_DEF and the OP_STRUCT_FIELDs of fieldNames[0 .. fieldCount - 1]
emitStructDef(compiler, type) ==
  StructFields(emit(compiler, Instr("OP_STRUCT_DEF", type.fieldCount % 256,
                                    type.nameConstant, <<>>)),
               type.fieldNames, 1,
               IF type.fieldCount < Len(type.fieldNames) THEN type.fieldCount
               ELSE Len(type.fieldNames))

\* One round of the loop: a method, up to the block() of method().  Before
\* the first one the definition and its fields are emitted, and fieldCount
\* is made -1.
typeMethod(compiler, s) ==
  The({Enter(beginScope(initCompiler(made.c, TYPE_METHOD, s.name)),
             [kind |-> "method", name |-> s.name, constant |-> made.constant])
        : made \in {identifierConstant(
                      IF Inner(compiler).fieldCount >= 0
                        THEN [emitStructDef(compiler, Inner(compiler))
                                EXCEPT !.open[Len(compiler.open)].fieldCount = -1]
                        ELSE compiler,
                      s.name)}})

\* method() after block()
typeMethodEnd(compiler) ==
  The({emitBytes(The({emit(constant.c, Instr("OP_CLOSURE", constant.constant, 0,
                                             UpvalueBytes(Cur(c).upvalues)))
                       : constant \in {The({makeConstant(end.c, OBJ_VAL(end.function))
                                             : end \in {endCompiler(Outside(c))}})}}),
                 "OP_METHOD", Inner(c).constant)
        : c \in {compiler}})

\* typeDeclaration after the loop
typeDeclarationEnd(compiler) ==
  The({The({IF Cur(defined).scopeDepth > 0
              THEN markInitialized(addLocal(defined, Inner(c).name))
              ELSE emitBytes(defined, "OP_DEFINE_GLOBAL", Inner(c).nameConstant)
             : defined \in {IF Inner(c).fieldCount >= 0
                              THEN emitStructDef(Outside(c), Inner(c))
                              ELSE Outside(c)}})
        : c \in {compiler}})

\* the closing brace: the statement it closes goes on after its block()
closingBrace(compiler) ==
  The({CASE c.open = <<>>           -> error(c, "Expect expression.")
         [] Inner(c).kind = "block" -> endScope(Outside(c))
         [] Inner(c).kind = "for"   -> forStatementEnd(c)
         [] Inner(c).kind = "if"    -> ifStatementEnd(c)
         [] Inner(c).kind = "else"  -> ifStatementElseEnd(c)
         [] Inner(c).kind = "function" -> functionDeclarationEnd(c)
         [] Inner(c).kind = "type"  -> typeDeclarationEnd(c)
         [] Inner(c).kind = "method" -> typeMethodEnd(c)
        : c \in {compiler}})

(***************************************************************************)
(* compiler.c, the parser.  A source may be given as its tokens instead:   *)
(* print statements, declarations and assignments of variables, calls,     *)
(* function declarations, blocks and expression statements, the            *)
(* expressions made of numbers, names, literals, parentheses, calls and    *)
(* the operators.  A token is its type and its text: the characters of a   *)
(* name, and for a number the one number that strtoll makes of it.         *)
(***************************************************************************)
Token(type) == [type |-> type, value |-> <<>>]
NumberToken(value) == [type |-> "TOKEN_NUMBER", value |-> <<value>>]
IdentifierToken(name) == [type |-> "TOKEN_IDENTIFIER", value |-> name]
\* the statements of a source as their tokens
Tokens(tokens) == [kind |-> "tokens", tokens |-> tokens]

PREC_NONE == 0
PREC_ASSIGNMENT == 1
PREC_OR == 2
PREC_AND == 3
PREC_EQUALITY == 4
PREC_COMPARISON == 5
PREC_TERM == 6
PREC_FACTOR == 7
PREC_UNARY == 8
PREC_CALL == 9
PREC_PRIMARY == 10

ParseRule(prefix, infix, precedence) ==
  [prefix |-> prefix, infix |-> infix, precedence |-> precedence]

\* rules[type], for the tokens of these sources
getRule(type) ==
  CASE type = "TOKEN_LEFT_PAREN" -> ParseRule("grouping", "call", PREC_CALL)
    [] type = "TOKEN_PLUS" -> ParseRule("NULL", "binary", PREC_TERM)
    [] type = "TOKEN_MINUS" -> ParseRule("unary", "binary", PREC_TERM)
    [] type \in {"TOKEN_STAR", "TOKEN_SLASH", "TOKEN_PERCENT"} ->
         ParseRule("NULL", "binary", PREC_FACTOR)
    [] type = "TOKEN_BANG" -> ParseRule("unary", "NULL", PREC_NONE)
    [] type \in {"TOKEN_BANG_EQUAL", "TOKEN_EQUAL_EQUAL"} ->
         ParseRule("NULL", "binary", PREC_EQUALITY)
    [] type \in {"TOKEN_GREATER", "TOKEN_GREATER_EQUAL", "TOKEN_LESS", "TOKEN_LESS_EQUAL"} ->
         ParseRule("NULL", "binary", PREC_COMPARISON)
    [] type = "TOKEN_IDENTIFIER" -> ParseRule("variable", "NULL", PREC_NONE)
    [] type = "TOKEN_NUMBER" -> ParseRule("number", "NULL", PREC_NONE)
    [] type = "TOKEN_STRING" -> ParseRule("string", "NULL", PREC_NONE)
    [] type \in {"TOKEN_TRUE", "TOKEN_FALSE", "TOKEN_NIL"} ->
         ParseRule("literal", "NULL", PREC_NONE)
    [] type = "TOKEN_AND" -> ParseRule("NULL", "and_", PREC_AND)
    [] type = "TOKEN_OR" -> ParseRule("NULL", "or_", PREC_OR)
    [] type = "TOKEN_NOT" -> ParseRule("unary", "NULL", PREC_NONE)
    [] OTHER -> ParseRule("NULL", "NULL", PREC_NONE)

\* the for (;;) of advance: every error token is reported and the next one
\* scanned; scanToken() at the end of the source returns TOKEN_EOF again
RECURSIVE scanTokens(_)
scanTokens(compiler) ==
  IF compiler.scanner = <<>> THEN [compiler EXCEPT !.current = Token("TOKEN_EOF")]
  ELSE IF Head(compiler.scanner).type = "TOKEN_ERROR"
    THEN scanTokens([error(compiler, Head(compiler.scanner).message)
                       EXCEPT !.scanner = Tail(@)])
  ELSE [compiler EXCEPT !.current = Head(compiler.scanner), !.scanner = Tail(@)]

advance(compiler) ==
  The({scanTokens([c EXCEPT !.previous = c.current]) : c \in {compiler}})

check(c, type) == c.current.type = type

consume(compiler, type, message) ==
  The({IF check(c, type) THEN advance(c) ELSE error(c, message) : c \in {compiler}})

\* the type annotation that is skipped if present, `types' the tokens that
\* are taken for one
SkipType(compiler, types) ==
  The({IF c.current.type \in types THEN advance(c) ELSE c : c \in {compiler}})

RECURSIVE parsePrecedence(_, _)

grouping(c) ==
  consume(parsePrecedence(c, PREC_ASSIGNMENT), "TOKEN_RIGHT_PAREN",
          "Expect ')' after expression.")

\* parser.previous is the operator
unary(compiler) ==
  The({CASE operatorType \in {"TOKEN_BANG", "TOKEN_NOT"} -> emitByte(c, "OP_NOT")
         [] operatorType = "TOKEN_MINUS" -> emitByte(c, "OP_NEGATE")
        : <<operatorType, c>> \in {<<compiler.previous.type,
                                     parsePrecedence(compiler, PREC_UNARY)>>}})

\* the opcode binary() emits for an operator
BinaryOpcode(operatorType) ==
  CASE operatorType = "TOKEN_BANG_EQUAL"    -> "OP_NOT_EQUAL"
    [] operatorType = "TOKEN_EQUAL_EQUAL"   -> "OP_EQUAL"
    [] operatorType = "TOKEN_GREATER"       -> "OP_GREATER"
    [] operatorType = "TOKEN_GREATER_EQUAL" -> "OP_GREATER_EQUAL"
    [] operatorType = "TOKEN_LESS"          -> "OP_LESS"
    [] operatorType = "TOKEN_LESS_EQUAL"    -> "OP_LESS_EQUAL"
    [] operatorType = "TOKEN_PLUS"          -> "OP_ADD"
    [] operatorType = "TOKEN_MINUS"         -> "OP_SUBTRACT"
    [] operatorType = "TOKEN_STAR"          -> "OP_MULTIPLY"
    [] operatorType = "TOKEN_SLASH"         -> "OP_DIVIDE"
    [] operatorType = "TOKEN_PERCENT"       -> "OP_MODULO"

\* binary() with the right operand parsed at the precedence of the operator
binaryTokensRightAssociative(compiler) ==
  The({emitByte(c, BinaryOpcode(operatorType))
        : <<operatorType, c>> \in
            {<<compiler.previous.type,
               parsePrecedence(compiler, getRule(compiler.previous.type).precedence)>>}})

\* binary(): parser.previous is the operator, the left operand is compiled
binaryTokens(compiler) ==
  The({emitByte(c, BinaryOpcode(operatorType))
        : <<operatorType, c>> \in
            {<<compiler.previous.type,
               parsePrecedence(compiler, getRule(compiler.previous.type).precedence + 1)>>}})

and_(compiler) ==
  The({patchJump(parsePrecedence(emitByte(endJump.c, "OP_POP"), PREC_AND), endJump.offset)
        : endJump \in {emitJump(compiler, "OP_JUMP_IF_FALSE")}})

or_(compiler) ==
  The({The({patchJump(parsePrecedence(emitByte(patchJump(endJump.c, elseJump.offset),
                                               "OP_POP"),
                                      PREC_OR),
                      endJump.offset)
             : endJump \in {emitJump(elseJump.c, "OP_JUMP")}})
        : elseJump \in {emitJump(compiler, "OP_JUMP_IF_FALSE")}})

\* the do-while of argumentList, `argCount' being the uint8_t count of the
\* arguments before: [c, argCount]
RECURSIVE ArgumentTokens(_, _)
ArgumentTokens(compiler, argCount) ==
  The({IF check(c, "TOKEN_COMMA")
         THEN ArgumentTokens(advance(c), (argCount + 1) % 256)
         ELSE [c |-> c, argCount |-> (argCount + 1) % 256]
        : c \in {The({IF argCount = 255
                        THEN error(c, "Can't have more than 255 arguments.") ELSE c
                       : c \in {parsePrecedence(compiler, PREC_ASSIGNMENT)}})}})

\* argumentList, the ( consumed: [c, argCount]
argumentListTokens(compiler) ==
  The({[c |-> consume(args.c, "TOKEN_RIGHT_PAREN", "Expect ')' after arguments."),
        argCount |-> args.argCount]
        : args \in {IF check(compiler, "TOKEN_RIGHT_PAREN")
                      THEN [c |-> compiler, argCount |-> 0]
                      ELSE ArgumentTokens(compiler, 0)}})

call(compiler) ==
  The({emitBytes(args.c, "OP_CALL", args.argCount) : args \in {argumentListTokens(compiler)}})

\* namedVariable(name, canAssign)
variable(compiler, name, canAssign) ==
  The({IF canAssign /\ check(var.c, "TOKEN_EQUAL")
         THEN emitBytes(parsePrecedence(advance(var.c), PREC_ASSIGNMENT), var.setOp, var.arg)
       ELSE IF canAssign /\ check(var.c, "TOKEN_COLON_EQUAL")
         THEN error(advance(var.c), "Use '=' for assignment, ':=' is for declaration.")
       ELSE namedVariable(compiler, name)
        : var \in {Resolve(compiler, name)}})

\* string(): the text of the token without its quotes
stringTokens(compiler) ==
  The({emitConstant([c EXCEPT !.heap = made.heap, !.strings = made.strings],
                    OBJ_VAL(made.obj))
        : <<c, made>> \in
            {<<c, copyString(c.heap, c.strings,
                             SubSeq(c.previous.value, 2, Len(c.previous.value) - 1))>>
               : c \in {compiler}}})

\* the prefix rule of parser.previous
PrefixRule(compiler, canAssign) ==
  The({CASE prefix = "grouping" -> grouping(c)
         [] prefix = "unary"    -> unary(c)
         [] prefix = "variable" -> variable(c, c.previous.value, canAssign)
         [] prefix = "number"   -> number(c, c.previous.value[1])
         [] prefix = "string"   -> stringTokens(c)
         [] prefix = "literal"  ->
              literal(c, CASE c.previous.type = "TOKEN_FALSE" -> "false"
                           [] c.previous.type = "TOKEN_NIL"   -> "nil"
                           [] c.previous.type = "TOKEN_TRUE"  -> "true")
        : <<c, prefix>> \in {<<c, getRule(c.previous.type).prefix>> : c \in {compiler}}})

\* the infix rule of parser.previous
InfixRule(compiler) ==
  The({CASE infix = "binary" -> binaryTokens(c)
         [] infix = "call"   -> call(c)
         [] infix = "and_"   -> and_(c)
         [] infix = "or_"    -> or_(c)
        : <<c, infix>> \in {<<c, getRule(c.previous.type).infix>> : c \in {compiler}}})

\* the while loop of parsePrecedence
RECURSIVE InfixRules(_, _)
InfixRules(compiler, precedence) ==
  The({IF precedence <= getRule(c.current.type).precedence
         THEN InfixRules(InfixRule(advance(c)), precedence)
         ELSE c
        : c \in {compiler}})

parsePrecedence(compiler, precedence) ==
  The({IF getRule(c.previous.type).prefix = "NULL"
         THEN error(c, "Expect expression.")
         ELSE The({IF precedence <= PREC_ASSIGNMENT /\ check(after, "TOKEN_EQUAL")
                     THEN error(advance(after), "Invalid assignment target.")
                     ELSE after
                    : after \in {InfixRules(PrefixRule(c, precedence <= PREC_ASSIGNMENT),
                                            precedence)}})
        : c \in {advance(compiler)}})

\* "print"
PrintChars == <<112, 114, 105, 110, 116>>

printStatement(c) ==
  emitByte(consume(parsePrecedence(consume(c, "TOKEN_LEFT_PAREN",
                                           "Expect '(' after 'print'."),
                                   PREC_ASSIGNMENT),
                   "TOKEN_RIGHT_PAREN", "Expect ')' after value."),
           "OP_PRINT")

returnStatement(compiler) ==
  The({IF check(c, "TOKEN_RIGHT_BRACE") \/ check(c, "TOKEN_EOF")
         THEN emitReturn(c)
         ELSE emitByte(parsePrecedence(c, PREC_ASSIGNMENT), "OP_RETURN")
        : c \in {IF Cur(compiler).type = TYPE_SCRIPT
                   THEN error(compiler, "Can't return from top-level code.")
                   ELSE compiler}})

\* the end of a declaration: the name is a new local, or a global
Define(compiler, name) ==
  The({IF Cur(c).scopeDepth > 0
         THEN markInitialized(addLocal(c, name))
         ELSE The({emitBytes(global.c, "OP_DEFINE_GLOBAL", global.constant)
                    : global \in {identifierConstant(c, name)}})
        : c \in {compiler}})

\* statement:  name : type = value,  name : type : value  and  name : value,
\* the colon being parser.current
typedDeclaration(compiler, name) ==
  The({IF check(c, "TOKEN_COLON") \/ check(c, "TOKEN_EQUAL")
         THEN Define(parsePrecedence(advance(c), PREC_ASSIGNMENT), name)
         ELSE error(c, "Expect '=' or ':' after type annotation.")
        : c \in {SkipType(advance(compiler),
                          {"TOKEN_INT", "TOKEN_FLOAT", "TOKEN_BOOL", "TOKEN_STR",
                           "TOKEN_PTR", "TOKEN_IDENTIFIER"})}})

\* statement:  name = value,  the = being parser.current
assignmentTokens(compiler, name) ==
  The({emitByte(emitBytes(var.c, var.setOp, var.arg), "OP_POP")
        : var \in {Resolve(parsePrecedence(advance(compiler), PREC_ASSIGNMENT), name)}})

\* declareVariable: parser.previous names a new local
declareVariable(compiler) ==
  The({IF Cur(c).scopeDepth = 0 THEN c
       ELSE addLocal(IF \E i \in 1..Len(Cur(c).locals) :
                          /\ Cur(c).locals[i].name = c.previous.value
                          /\ \A j \in i..Len(Cur(c).locals) :
                               ~(Cur(c).locals[j].depth # -1
                                 /\ Cur(c).locals[j].depth < Cur(c).scopeDepth)
                       THEN error(c, "Already a variable with this name in this scope.")
                       ELSE c,
                     c.previous.value)
        : c \in {compiler}})

\* the do-while of function() over the parameters
RECURSIVE Parameters(_)
Parameters(compiler) ==
  The({IF check(c, "TOKEN_COMMA") THEN Parameters(advance(c)) ELSE c
        : c \in {markInitialized(
                   SkipType(declareVariable(
                              consume(The({IF c.heap[Cur(c).function].arity > 255
                                             THEN error(c, "Can't have more than 255 parameters.")
                                             ELSE c
                                            : c \in {[compiler EXCEPT
                                                        !.heap[Cur(compiler).function].arity =
                                                          @ + 1]}}),
                                      "TOKEN_IDENTIFIER", "Expect parameter name.")),
                            {"TOKEN_INT", "TOKEN_FLOAT", "TOKEN_BOOL", "TOKEN_STR",
                             "TOKEN_PTR", "TOKEN_IDENTIFIER"}))}})

\* function(TYPE_FUNCTION, true) up to block(): parser.previous is the name
functionTokens(compiler) ==
  The({Enter(consume(SkipType(consume(IF check(c, "TOKEN_RIGHT_PAREN") THEN c
                                      ELSE Parameters(c),
                                      "TOKEN_RIGHT_PAREN", "Expect ')' after parameters."),
                              {"TOKEN_INT", "TOKEN_FLOAT", "TOKEN_BOOL", "TOKEN_STR",
                               "TOKEN_PTR", "TOKEN_VOID", "TOKEN_IDENTIFIER"}),
                     "TOKEN_LEFT_BRACE", "Expect '{' before function body."),
             [kind |-> "function", name |-> compiler.previous.value])
        : c \in {beginScope(initCompiler(compiler, TYPE_FUNCTION, compiler.previous.value))}})

\* funDeclaration(true)
funDeclaration(compiler) ==
  The({functionTokens(IF Cur(c).scopeDepth > 0
                        THEN markInitialized(addLocal(c, c.previous.value)) ELSE c)
        : c \in {compiler}})

\* statement:  name() {  with the ) consumed
inlineFunction(compiler, name) ==
  The({consume(SkipType(c, {"TOKEN_INT", "TOKEN_FLOAT", "TOKEN_BOOL", "TOKEN_STR",
                            "TOKEN_PTR", "TOKEN_VOID"}),
               "TOKEN_LEFT_BRACE", "Expect '{' before function body.")
        : c \in {functionDeclaration(compiler, [name |-> name])}})

\* statement:  a call, the ( consumed
callTokens(compiler, name) ==
  The({emitByte(emitBytes(args.c, "OP_CALL", args.argCount), "OP_POP")
        : args \in {argumentListTokens(namedVariable(compiler, name))}})

\* the tokens that make  name( x  a declaration when they follow
TypeStarts ==
  {"TOKEN_INT", "TOKEN_FLOAT", "TOKEN_BOOL", "TOKEN_STR", "TOKEN_PTR", "TOKEN_BYTE",
   "TOKEN_VOID", "TOKEN_IDENTIFIER"}

\* the tokens after  name()  that make it a declaration
BodyStarts ==
  {"TOKEN_LEFT_BRACE", "TOKEN_INT", "TOKEN_FLOAT", "TOKEN_BOOL", "TOKEN_STR", "TOKEN_PTR",
   "TOKEN_VOID"}

\* the same without restoreScannerState and the saved tokens
callOrDeclarationNoRestore(compiler, name) ==
  The({IF check(c, "TOKEN_RIGHT_PAREN")
         THEN The({IF after.current.type \in BodyStarts
                     THEN inlineFunction(after, name)
                     ELSE emitByte(emitBytes(namedVariable(after, name), "OP_CALL", 0),
                                   "OP_POP")
                    : after \in {advance(c)}})
       ELSE The({IF looksLikeDeclaration
                   THEN funDeclaration([restored EXCEPT !.previous = IdentifierToken(name)])
                   ELSE callTokens(restored, name)
                  : <<restored, looksLikeDeclaration>> \in
                      {IF check(c, "TOKEN_IDENTIFIER")
                         THEN <<advance(c), advance(c).current.type \in TypeStarts>>
                         ELSE <<c, FALSE>>}})
        : c \in {advance(compiler)}})

\* statement:  name(  with the ( being parser.current.  The parser looks at
\* the two tokens after it and returns to the (: saveScannerState,
\* savedCurrent and savedPrevious are the scanner and the tokens of
\* `compiler'.
callOrDeclaration(compiler, name) ==
  The({IF check(c, "TOKEN_RIGHT_PAREN")
         THEN The({IF after.current.type \in BodyStarts
                     THEN inlineFunction(after, name)
                     ELSE emitByte(emitBytes(namedVariable(after, name), "OP_CALL", 0),
                                   "OP_POP")
                    : after \in {advance(c)}})
       ELSE The({IF looksLikeDeclaration
                   THEN funDeclaration([restored EXCEPT !.previous = IdentifierToken(name)])
                   ELSE callTokens(restored, name)
                  : <<restored, looksLikeDeclaration>> \in
                      {IF check(c, "TOKEN_IDENTIFIER")
                         THEN <<advance([c EXCEPT !.scanner = compiler.scanner,
                                                  !.current = compiler.current,
                                                  !.previous = compiler.previous]),
                                advance(c).current.type \in TypeStarts>>
                         ELSE <<c, FALSE>>}})
        : c \in {advance(compiler)}})

\* statement, parser.previous being an identifier
identifierStatement(compiler) ==
  The({IF name = PrintChars THEN printStatement(c)
       ELSE IF check(c, "TOKEN_COLON_EQUAL")
         THEN Define(parsePrecedence(advance(c), PREC_ASSIGNMENT), name)
       ELSE IF check(c, "TOKEN_COLON") THEN typedDeclaration(c, name)
       ELSE IF check(c, "TOKEN_EQUAL") THEN assignmentTokens(c, name)
       ELSE IF check(c, "TOKEN_LEFT_PAREN") THEN callOrDeclaration(c, name)
       ELSE emitByte(variable(c, name, TRUE), "OP_POP")
        : <<c, name>> \in {<<c, c.previous.value>> : c \in {compiler}}})

\* the type annotation of a field or a parameter
AnnotationTypes ==
  {"TOKEN_INT", "TOKEN_FLOAT", "TOKEN_BOOL", "TOKEN_STR", "TOKEN_PTR", "TOKEN_IDENTIFIER"}

\* typeDeclaration up to its loop, the word type consumed: typeName is
\* parser.previous whether or not it is a name
typeDeclarationTokens(compiler) ==
  The({Enter(consume(made.c, "TOKEN_LEFT_BRACE", "Expect '{' after type name."),
             [kind         |-> "type",
              name         |-> typeName,
              nameConstant |-> made.constant,
              fieldCount   |-> 0,
              fieldNames   |-> <<>>])
        : <<typeName, made>> \in
            {<<c.previous.value, identifierConstant(c, c.previous.value)>>
               : c \in {consume(compiler, "TOKEN_IDENTIFIER", "Expect type name.")}}})

\* a turn of the loop that finds ( after the name: the definition and its
\* fields are emitted before the first method, then method() up to block()
methodTokens(compiler, name) ==
  The({Enter(consume(SkipType(consume(IF check(c, "TOKEN_RIGHT_PAREN") THEN c
                                      ELSE Parameters(c),
                                      "TOKEN_RIGHT_PAREN", "Expect ')' after parameters."),
                              AnnotationTypes \cup {"TOKEN_VOID"}),
                     "TOKEN_LEFT_BRACE", "Expect '{' before method body."),
             [kind |-> "method", name |-> name, constant |-> made.constant])
        : <<made, c>> \in
            {<<made, consume(beginScope(initCompiler(made.c, TYPE_METHOD, name)),
                             "TOKEN_LEFT_PAREN", "Expect '(' after method name.")>>
               : made \in {identifierConstant(
                              IF Inner(compiler).fieldCount >= 0
                                THEN [emitStructDef(compiler, Inner(compiler))
                                        EXCEPT !.open[Len(compiler.open)].fieldCount = -1]
                                ELSE compiler,
                              name)}}})

\* a turn of the loop that finds no ( after the name: a field.  fieldNames
\* has 256 elements, and a write behind the last one or before the first
\* one is undefined.
fieldTokens(compiler, name) ==
  The({The({IF check(counted, "TOKEN_COMMA") THEN advance(counted) ELSE counted
             : counted \in
                 {[(IF Inner(c).fieldCount + 1 > 255
                      THEN error(c, "Can't have more than 255 fields in a struct.") ELSE c)
                     EXCEPT !.open[Len(c.open)].fieldCount = @ + 1]}})
        : c \in
            {SkipType(
               consume(The({[c EXCEPT
                               !.heap = string.heap,
                               !.strings = string.strings,
                               !.undefined = @ \/ Inner(c).fieldCount >= 256
                                               \/ Inner(c).fieldCount < 0,
                               !.open[Len(c.open)].fieldNames =
                                 IF Inner(c).fieldCount >= 256 \/ Inner(c).fieldCount < 0
                                   THEN @
                                 ELSE IF Inner(c).fieldCount < Len(@)
                                   THEN [@ EXCEPT ![Inner(c).fieldCount + 1] = string.obj]
                                 ELSE Append(@, string.obj)]
                             : <<c, string>> \in
                                 {<<c, copyString(c.heap, c.strings, name)>>
                                    : c \in {compiler}}}),
                       "TOKEN_COLON", "Expect ':' after field name."),
               AnnotationTypes)}})

\* typeDeclaration after its loop
typeDeclarationEndTokens(compiler) ==
  The({IF Cur(defined).scopeDepth > 0
         THEN markInitialized(addLocal(defined, Inner(compiler).name))
         ELSE emitBytes(defined, "OP_DEFINE_GLOBAL", Inner(compiler).nameConstant)
        : defined \in {consume(IF Inner(compiler).fieldCount >= 0
                                 THEN emitStructDef(Outside(compiler), Inner(compiler))
                                 ELSE Outside(compiler),
                               "TOKEN_RIGHT_BRACE", "Expect '}' after type body.")}})

\* one turn of the loop of typeDeclaration: at }, at the end of the source
\* and at a token that is no name the loop ends
typeMemberTokens(compiler) ==
  The({IF ~check(c, "TOKEN_IDENTIFIER") THEN typeDeclarationEndTokens(c)
       ELSE The({IF check(named, "TOKEN_LEFT_PAREN")
                   THEN methodTokens(named, c.current.value)
                   ELSE fieldTokens(named, c.current.value)
                  : named \in {advance(c)}})
        : c \in {compiler}})

\* statement() on the tokens of a source that holds no if, for or import,
\* no subscript and no field
statementTokens(compiler) ==
  The({CASE check(c, "TOKEN_RETURN")      -> returnStatement(advance(c))
         [] check(c, "TOKEN_TYPE")        -> typeDeclarationTokens(advance(c))
         [] check(c, "TOKEN_LEFT_BRACE")  -> Enter(beginScope(advance(c)), [kind |-> "block"])
         [] check(c, "TOKEN_RIGHT_BRACE") -> closingBrace(advance(c))
         [] check(c, "TOKEN_IDENTIFIER")  -> identifierStatement(advance(c))
         [] OTHER -> emitByte(parsePrecedence(c, PREC_ASSIGNMENT), "OP_POP")
        : c \in {compiler}})

\* the tokens not consumed are the rest of the source
Unread(compiler) ==
  The({[c EXCEPT !.rest = IF check(c, "TOKEN_EOF") THEN @
                          ELSE <<Tokens(<<c.current>> \o c.scanner)>> \o @,
                 !.scanner = <<>>]
        : c \in {compiler}})

\* import "path"
importStatement(compiler, s) ==
  The({emitBytes(path.c, "OP_IMPORT", path.constant)
        : path \in {identifierConstant(compiler, s.path)}})

\* statement(), and for } and else the return into the statement they end
statement(compiler, s) ==
  The({CASE s.kind = "if"         -> ifStatement(c, s)
         [] s.kind = "for"        -> forStatement(c, s)
         [] s.kind = "block"      -> Enter(beginScope(c), [kind |-> "block"])
         [] s.kind = "}"          -> closingBrace(c)
         [] s.kind = "else"       ->
              IF c.open # <<>> /\ Inner(c).kind = "if" THEN ifStatementElse(c)
              ELSE [error(c, "Expect expression.") EXCEPT !.rest = <<Open>> \o @]
         [] s.kind = "var"        -> varDeclaration(c, s)
         [] s.kind = "assign"     -> assignment(c, s)
         [] s.kind = "expression" -> expressionStatement(c, s.value)
         [] s.kind = "function"   -> functionDeclaration(c, s)
         [] s.kind = "type"       -> typeDeclaration(c, s)
         [] s.kind = "field"      -> typeField(c, s)
         [] s.kind = "method"     -> typeMethod(c, s)
         [] s.kind = "call"       -> callStatement(c, s)
         [] s.kind = "import"     -> importStatement(c, s)
         [] s.kind = "nils"       -> emit(c, Instr("OP_NIL OP_POP", s.count, 0, <<>>))
         [] s.kind = "tokens"     ->
              The({IF check(read, "TOKEN_EOF") THEN read
                   ELSE IF read.open # <<>> /\ Inner(read).kind = "type"
                     THEN Unread(typeMemberTokens(read))
                   ELSE Unread(statementTokens(read))
                    : read \in {advance([c EXCEPT !.scanner = s.tokens])}})
        : c \in {compiler}})

\* the tokens declaration() skips after an error: up to if, for, return or
\* {, which for  name() {,  else {  and  type name {  leaves the block
Synchronize(rest) ==
  IF rest # <<>> /\ rest[1].kind = "tokens"
    THEN LET tokens == rest[1].tokens
             stops == {k \in 1..Len(tokens) :
                         tokens[k].type \in {"TOKEN_IF", "TOKEN_FOR", "TOKEN_RETURN",
                                             "TOKEN_LEFT_BRACE"}}
             stop == CHOOSE k \in stops : \A other \in stops : k <= other
         IN  IF stops = {} THEN <<>>
             ELSE <<Tokens(SubSeq(tokens, stop, Len(tokens)))>>
  ELSE
  LET stops == {k \in 1..Len(rest) : rest[k].kind \in {"if", "for", "return", "block",
                                                        "function", "else", "type"}}
      stop == CHOOSE k \in stops : \A other \in stops : k <= other
  IN  IF stops = {} THEN <<>>
      ELSE IF rest[stop].kind \in {"function", "else", "type"}
        THEN <<Open>> \o SubSeq(rest, stop + 1, Len(rest))
      ELSE SubSeq(rest, stop, Len(rest))

\* the messages of the error tokens among the tokens skipped
SynchronizeErrors(rest) ==
  IF rest # <<>> /\ rest[1].kind = "tokens"
    THEN LET tokens == rest[1].tokens
             skipped == Len(tokens) - (IF Synchronize(rest) = <<>> THEN 0
                                       ELSE Len(Synchronize(rest)[1].tokens))
             errors == SelectSeq(SubSeq(tokens, 1, skipped),
                                 LAMBDA token : token.type = "TOKEN_ERROR")
         IN  [k \in 1..Len(errors) |-> errors[k].message]
    ELSE <<>>

\* the loop of declaration() in panic mode; advance() reports the first
\* error token it comes to
synchronize(compiler) ==
  The({[(IF messages = <<>> THEN c ELSE error(c, messages[1]))
          EXCEPT !.rest = Synchronize(@)]
        : <<c, messages>> \in {<<[compiler EXCEPT !.panicMode = FALSE],
                                  SynchronizeErrors(compiler.rest)>>}})

VmUnchanged ==
  UNCHANGED <<NAN_BOXING, COMPUTED_GOTO, globals, stack, stackTop, frames,
              openUpvalues, output, result, errorMsg, emitted, program, steps, last>>

\* interpret() calls compile(source): initScanner, initCompiler, the flags
compile ==
  /\ ~compiling.active
  /\ compiling.texts # <<>>
  /\ sources = <<>>
  /\ result \notin {"running", "UNDEFINED"}
  /\ IF Head(compiling.texts) = <<>> THEN TRUE
     ELSE Head(compiling.texts)[Len(Head(compiling.texts))].kind # "text"
  /\ \E c \in {Compilation(heap, strings, Head(compiling.texts), Tail(compiling.texts))} :
       compiling' = [initCompiler(c, TYPE_SCRIPT, <<>>) EXCEPT !.loops = compiling.loops,
                                                         !.jumps = compiling.jumps,
                                                         !.statements = compiling.statements]
  /\ UNCHANGED <<heap, strings, sources>>
  /\ VmUnchanged

\* one turn of the loop of compile() or of block(): declaration().  At the
\* end of the source a block still open lacks its brace.
\* the statement is one whose handler goes on, into block() or with the
\* fields of a type
Enters(c, s) ==
  \/ s.kind \in {"if", "for", "block", "function", "type", "field", "method"}
  \/ s.kind = "else" /\ c.open # <<>> /\ Inner(c).kind = "if"

\* the note of the statement that declaration() compiles next; the fields
\* and methods of a type declaration are parts of that statement
Statements(c) ==
  IF c.rest # <<>> /\ ~(c.open # <<>> /\ Inner(c).kind = "type")
    THEN [c EXCEPT !.statements = @ \cup {[function |-> Cur(c).function,
                                            at       |-> Len(Cur(c).code) + 1,
                                            locals   |-> Len(Cur(c).locals)]}]
    ELSE c

\* One declaration(): a statement, up to the block() it enters if it does,
\* or at a closing brace the rest of the statement whose block() it ends;
\* at the end of the source every block() still open fails to find its
\* brace.  The declaration() that returns synchronizes.
declaration ==
  /\ compiling.active
  /\ compiling.rest # <<>> \/ compiling.open # <<>>
  /\ \E c \in {IF compiling.rest = <<>>
                 THEN closingBrace(error(compiling,
                                         IF Inner(compiling).kind = "type"
                                           THEN "Expect '}' after type body."
                                           ELSE "Expect '}' after block."))
                 ELSE statement([Statements(compiling) EXCEPT !.rest = Tail(@)],
                                Head(compiling.rest))} :
       compiling' = IF c.panicMode
                       /\ ~(compiling.rest # <<>> /\ Enters(compiling, Head(compiling.rest)))
                       /\ ~(compiling.rest # <<>> /\ Head(compiling.rest).kind = "tokens"
                            /\ \/ Len(c.open) > Len(compiling.open)
                               \/ c.open # <<>> /\ Inner(c).kind = "type")
                      THEN synchronize(c)
                      ELSE c
  /\ UNCHANGED <<heap, strings, sources>>
  /\ VmUnchanged

compileReturn ==
  /\ compiling.active
  /\ compiling.rest = <<>>
  /\ compiling.open = <<>>
  /\ \E end \in {endCompiler(compiling)} :
       /\ heap' = end.c.heap
       /\ strings' = end.c.strings
       /\ \E function \in IF end.c.undefined THEN {NULL, end.function}
                          ELSE IF end.c.hadError THEN {NULL} ELSE {end.function} :
            sources' = <<function>>
       /\ compiling' = [active    |-> FALSE,
                        texts     |-> end.c.texts,
                        hadError  |-> end.c.hadError,
                        errors    |-> end.c.errors,
                        undefined |-> end.c.undefined,
                        loops     |-> end.c.loops,
                        jumps     |-> end.c.jumps,
                        statements |-> end.c.statements,
                        source    |-> end.c.source]
  /\ VmUnchanged

\* The state after initVM(), the sources `texts' still to be interpreted
InitSources(texts) ==
  /\ NAN_BOXING \in BOOLEAN
  /\ COMPUTED_GOTO \in BOOLEAN
  /\ \E vm \in {initVM(NAN_BOXING)} :
       /\ heap = vm.heap
       /\ strings = vm.strings
       /\ globals = vm.globals
       /\ stack = vm.stack
  /\ sources = <<>>
  /\ emitted = {}
  /\ stackTop = 0
  /\ frames = <<>>
  /\ openUpvalues = <<>>
  /\ output = <<>>
  /\ result = "idle"
  /\ errorMsg = [format |-> "", args |-> <<>>]
  /\ program = NULL
  /\ steps = 0
  /\ last = NoInstr
  /\ compiling = [NotCompiling EXCEPT !.texts = texts]

(***************************************************************************)
(* Loops: one source,                                                      *)
(*   { i := 0                                                              *)
(*     for i < n { j := i + 1  if j < n { k := j } else { }  i = j } }     *)
(* or                                                                      *)
(*   i := 0                                                                *)
(*   for i < n { j := 0  for j < m { j = j + 1 }  i = i + 1 }              *)
(* or  for nil { }  alone.                                                 *)
(***************************************************************************)
MaxIterations == 2

IChars == <<105>>
JChars == <<106>>
KChars == <<107>>

CountingSource(n) ==
  <<Open,
      VarDecl(IChars, Number(0)),
      For(Binary(Variable(IChars), "<", Number(n))),
        VarDecl(JChars, Binary(Variable(IChars), "+", Number(1))),
        If(Binary(Variable(JChars), "<", Number(n))),
          VarDecl(KChars, Variable(JChars)),
        Else,
        Close,
        Assign(IChars, Variable(JChars)),
      Close,
    Close>>

NestedSource(n, m) ==
  <<VarDecl(IChars, Number(0)),
    For(Binary(Variable(IChars), "<", Number(n))),
      VarDecl(JChars, Number(0)),
      For(Binary(Variable(JChars), "<", Number(m))),
        Assign(JChars, Binary(Variable(JChars), "+", Number(1))),
      Close,
      Assign(IChars, Binary(Variable(IChars), "+", Number(1))),
    Close>>

NeverSource == <<For(Literal("nil")), Close>>

LoopSources ==
  {CountingSource(n) : n \in 0..MaxIterations}
    \cup {NestedSource(n, m) : n, m \in 0..MaxIterations}
    \cup {NeverSource}

InitLoops == \E source \in LoopSources : InitSources(<<source>>)

NextLoops ==
  \/ compile
  \/ declaration
  \/ compileReturn
  \/ interpret
  \/ OP_CONSTANT
  \/ OP_NIL
  \/ OP_POP
  \/ OP_GET_LOCAL_1
  \/ OP_GET_LOCAL_2
  \/ OP_SET_LOCAL
  \/ OP_GET_GLOBAL
  \/ OP_DEFINE_GLOBAL
  \/ OP_SET_GLOBAL
  \/ OP_ADD
  \/ OP_LESS
  \/ OP_JUMP
  \/ OP_JUMP_IF_FALSE
  \/ OP_LOOP
  \/ OP_RETURN

SpecLoops == InitLoops /\ [][NextLoops]_vars

(***************************************************************************)
(* Jumps: one source,  if false { body }  or  if true { } else { body }  or *)
(* for false { body },  the body a row of statements  nil  after the        *)
(* statement  1  when its size in bytes is odd.                             *)
(***************************************************************************)
JumpMargin == 2

\* statements that compile to `bytes' bytes
BodyOf(bytes) ==
  IF bytes % 2 = 0 THEN <<Nils(bytes \div 2)>>
  ELSE <<ExprStmt(Number(1)), Nils((bytes - 3) \div 2)>>

IfSource(bytes) == <<If(Literal("false"))>> \o BodyOf(bytes) \o <<Close>>
IfElseSource(bytes) == <<If(Literal("true")), Else>> \o BodyOf(bytes) \o <<Close>>
ForSource(bytes) == <<For(Literal("false"))>> \o BodyOf(bytes) \o <<Close>>

\* the sizes that put a jump of each source on either side of UINT16_MAX
BodySizes == (UINT16_MAX - 8 - JumpMargin)..(UINT16_MAX + JumpMargin)

JumpSources ==
  UNION {{IfSource(bytes), IfElseSource(bytes), ForSource(bytes)} : bytes \in BodySizes}

InitJumps == \E source \in JumpSources : InitSources(<<source>>)

NextJumps ==
  \/ compile
  \/ declaration
  \/ compileReturn
  \/ interpret
  \/ OP_NIL
  \/ OP_TRUE
  \/ OP_FALSE
  \/ OP_POP
  \/ OP_JUMP
  \/ OP_JUMP_IF_FALSE
  \/ OP_RETURN

SpecJumps == InitJumps /\ [][NextJumps]_vars

(***************************************************************************)
(* Limits: one source,  if false { body },  the body declaring locals, or  *)
(* using constants, or calling f with arguments, or                         *)
(*   f() { a1 := nil ...  g() { b1 := nil ...  h() { a1 ... b1 ... } } }    *)
(* where h reads the locals of f and of g.                                  *)
(***************************************************************************)
LimitMargin == 1
OuterLocals == 128

NameA(k) == <<97, k>>
NameB(k) == <<98, k>>
FChars == <<102>>
GChars == <<103>>
HChars == <<104>>

IfFalse(body) == <<If(Literal("false"))>> \o body \o <<Close>>

\* count locals, and the last one read
LocalsSource(count) ==
  IfFalse([k \in 1..count |-> VarDecl(NameA(k), Literal("nil"))]
            \o <<ExprStmt(Variable(NameA(count)))>>)

\* count constants
ConstantsSource(count) == IfFalse([k \in 1..count |-> ExprStmt(Number(1))])

\* count arguments
ArgumentsSource(count) ==
  IfFalse(<<CallStmt(FChars, [k \in 1..count |-> Literal("nil")])>>)

\* count upvalues of h
UpvaluesSource(count) ==
  IfFalse(<<Fn(FChars)>>
            \o [k \in 1..OuterLocals |-> VarDecl(NameA(k), Literal("nil"))]
            \o <<Fn(GChars)>>
            \o [k \in 1..(count - OuterLocals) |-> VarDecl(NameB(k), Literal("nil"))]
            \o <<Fn(HChars)>>
            \o [k \in 1..OuterLocals |-> ExprStmt(Variable(NameA(k)))]
            \o [k \in 1..(count - OuterLocals) |-> ExprStmt(Variable(NameB(k)))]
            \o <<Close, Close, Close>>)

Around(limit) == (limit - LimitMargin)..(limit + LimitMargin)

LimitSources ==
  {LocalsSource(count) : count \in Around(UINT8_COUNT - 1)}
    \cup {ConstantsSource(count) : count \in Around(UINT8_COUNT)}
    \cup {ArgumentsSource(count) : count \in Around(UINT8_MAX)}
    \cup {UpvaluesSource(count) : count \in Around(UINT8_COUNT)}

InitLimits == \E source \in LimitSources : InitSources(<<source>>)

NextLimits ==
  \/ compile
  \/ declaration
  \/ compileReturn
  \/ interpret
  \/ OP_NIL
  \/ OP_FALSE
  \/ OP_POP
  \/ OP_JUMP_IF_FALSE
  \/ OP_RETURN

SpecLimits == InitLimits /\ [][NextLimits]_vars

(***************************************************************************)
(* Types: one source,  if false { type t { x1: int, x2: int, ... } }.        *)
(***************************************************************************)
TChars == <<116>>
\* the names of the fields repeat, which typeDeclaration does not look at
DistinctFields == 8
FieldName(k) == <<120, k % DistinctFields>>

TypeSource(count) ==
  IfFalse(<<TypeDecl(TChars)>> \o [k \in 1..count |-> Field(FieldName(k))] \o <<Close>>)

TypeSources == {TypeSource(count) : count \in Around(UINT8_COUNT)}

InitTypes == \E source \in TypeSources : InitSources(<<source>>)

NextTypes ==
  \/ compile
  \/ declaration
  \/ compileReturn
  \/ interpret
  \/ OP_NIL
  \/ OP_FALSE
  \/ OP_POP
  \/ OP_JUMP_IF_FALSE
  \/ OP_RETURN

SpecTypes == InitTypes /\ [][NextTypes]_vars

(***************************************************************************)
(* Type bodies: one source,  type t { ... }  at top level, whose body is   *)
(* every sequence of up to MaxMembers fields  x<k>: int  and methods       *)
(* m<k>() { }, compiled and run.                                           *)
(***************************************************************************)
MaxMembers == 3

MemberKinds == UNION {[1..n -> {"field", "method"}] : n \in 0..MaxMembers}

MethodChars(k) == <<109, k>>

RECURSIVE Members(_, _)
Members(kinds, k) ==
  IF k > Len(kinds) THEN <<>>
  ELSE (IF kinds[k] = "field" THEN <<Field(FieldName(k))>>
        ELSE <<Method(MethodChars(k)), Close>>) \o Members(kinds, k + 1)

TypeBody(kinds) == <<TypeDecl(TChars)>> \o Members(kinds, 1) \o <<Close>>

InitTypeBodies == \E kinds \in MemberKinds : InitSources(<<TypeBody(kinds)>>)

NextTypeBodies ==
  \/ compile
  \/ declaration
  \/ compileReturn
  \/ interpret
  \/ OP_NIL
  \/ OP_CLOSURE
  \/ OP_STRUCT_DEF
  \/ OP_STRUCT_FIELD
  \/ OP_METHOD
  \/ OP_DEFINE_GLOBAL
  \/ OP_RETURN

SpecTypeBodies == InitTypeBodies /\ [][NextTypeBodies]_vars

(***************************************************************************)
(* Errors: a REPL session of SessionLength lines, each one of                *)
(*   x := 1                                                                  *)
(*   if true { x = 2 }                                                       *)
(*   }                                                                       *)
(*   else { x := 1 }                                                         *)
(*   { x := 1                                                                *)
(*   x := 1  }  x = 2  if true { x = 2 }                                     *)
(*   for false { body }  with a body too large.                              *)
(***************************************************************************)
SessionLength == 2

DeclareLine == <<VarDecl(XChars, Number(1))>>
AssignLine == <<If(Literal("true")), Assign(XChars, Number(2)), Close>>

Lines ==
  {DeclareLine,
   AssignLine,
   <<Close>>,
   <<Else>> \o DeclareLine \o <<Close>>,
   <<Open>> \o DeclareLine,
   DeclareLine \o <<Close, Assign(XChars, Number(2))>> \o AssignLine,
   ForSource(UINT16_MAX)}

InitErrors == \E texts \in [1..SessionLength -> Lines] : InitSources(texts)

NextErrors ==
  \/ compile
  \/ declaration
  \/ compileReturn
  \/ interpret
  \/ OP_CONSTANT
  \/ OP_NIL
  \/ OP_TRUE
  \/ OP_POP
  \/ OP_DEFINE_GLOBAL
  \/ OP_SET_GLOBAL
  \/ OP_JUMP
  \/ OP_JUMP_IF_FALSE
  \/ OP_RETURN

SpecErrors == InitErrors /\ [][NextErrors]_vars

(***************************************************************************)
(* Precedence: one source,  print(e),  e being  a op b op c,               *)
(* a op (b op c),  u a op b  or  a op u b  with a, b, c different numbers, *)
(* op a binary operator and u one of - and !, or  (10 + 5) * 3 - 2.        *)
(***************************************************************************)
MaxOperand == 3

BinaryOperators ==
  {"TOKEN_OR", "TOKEN_AND", "TOKEN_EQUAL_EQUAL", "TOKEN_BANG_EQUAL", "TOKEN_LESS",
   "TOKEN_GREATER", "TOKEN_PLUS", "TOKEN_MINUS", "TOKEN_STAR", "TOKEN_SLASH"}
UnaryOperators == {"TOKEN_MINUS", "TOKEN_BANG"}

\* (10 + 5) * 3 - 2
ArithmeticScenario ==
  <<Token("TOKEN_LEFT_PAREN"), NumberToken(10), Token("TOKEN_PLUS"), NumberToken(5),
    Token("TOKEN_RIGHT_PAREN"), Token("TOKEN_STAR"), NumberToken(3), Token("TOKEN_MINUS"),
    NumberToken(2)>>

Expressions ==
  {ArithmeticScenario}
    \cup UNION {{<<NumberToken(n[1]), Token(o[1]), NumberToken(n[2]), Token(o[2]),
                   NumberToken(n[3])>>,
                 <<NumberToken(n[1]), Token(o[1]), Token("TOKEN_LEFT_PAREN"),
                   NumberToken(n[2]), Token(o[2]), NumberToken(n[3]),
                   Token("TOKEN_RIGHT_PAREN")>>}
                 : <<n, o>> \in {n \in [1..3 -> 1..MaxOperand] :
                                   \A i, j \in 1..3 : n[i] = n[j] => i = j}
                                 \X [1..2 -> BinaryOperators]}
    \cup UNION {{<<Token(u), NumberToken(a), Token(o), NumberToken(MaxOperand)>>,
                 <<NumberToken(MaxOperand), Token(o), Token(u), NumberToken(a)>>}
                 : <<u, a, o>> \in UnaryOperators \X (1..(MaxOperand - 1)) \X BinaryOperators}

\* print(e)
PrintOf(e) ==
  <<Tokens(<<IdentifierToken(PrintChars), Token("TOKEN_LEFT_PAREN")>> \o e
            \o <<Token("TOKEN_RIGHT_PAREN")>>)>>

\* the e of print(e)
PrintedOf(source) == SubSeq(source[1].tokens, 3, Len(source[1].tokens) - 1)

InitPrecedence == \E e \in Expressions : InitSources(<<PrintOf(e)>>)

NextPrecedence ==
  \/ compile
  \/ declaration
  \/ compileReturn
  \/ interpret
  \/ OP_CONSTANT
  \/ OP_NIL
  \/ OP_POP
  \/ OP_EQUAL
  \/ OP_NOT_EQUAL
  \/ OP_LESS
  \/ OP_GREATER
  \/ OP_ADD
  \/ OP_SUBTRACT
  \/ OP_MULTIPLY
  \/ OP_DIVIDE
  \/ OP_NEGATE
  \/ OP_NOT
  \/ OP_JUMP
  \/ OP_JUMP_IF_FALSE
  \/ OP_PRINT
  \/ OP_RETURN

SpecPrecedence == InitPrecedence /\ [][NextPrecedence]_vars

(***************************************************************************)
(* Call or declaration: one source of a few statements that start with     *)
(* name( .  Each prints 2 if its statements are taken for what they are.   *)
(***************************************************************************)
LeftParen == Token("TOKEN_LEFT_PAREN")
RightParen == Token("TOKEN_RIGHT_PAREN")
LeftBrace == Token("TOKEN_LEFT_BRACE")
RightBrace == Token("TOKEN_RIGHT_BRACE")

\* the type annotations of a parameter: the type keywords and a type's name
ParameterTypes ==
  {Token(type) : type \in {"TOKEN_INT", "TOKEN_FLOAT", "TOKEN_BOOL", "TOKEN_STR", "TOKEN_PTR",
                           "TOKEN_BYTE", "TOKEN_VOID"}}
    \cup {IdentifierToken(TChars)}

\* print(e)
PrintTokens(e) == <<IdentifierToken(PrintChars), LeftParen>> \o e \o <<RightParen>>

\* f(x T) { return x }  print(f(2))
DeclaresTyped(type) ==
  <<IdentifierToken(FChars), LeftParen, IdentifierToken(XChars), type, RightParen,
    LeftBrace, Token("TOKEN_RETURN"), IdentifierToken(XChars), RightBrace>>
    \o PrintTokens(<<IdentifierToken(FChars), LeftParen, NumberToken(2), RightParen>>)

\* f(x T, y T) T { print(y) }  f(1, 2)
DeclaresTwo(type) ==
  <<IdentifierToken(FChars), LeftParen, IdentifierToken(XChars), type, Token("TOKEN_COMMA"),
    IdentifierToken(YChars), type, RightParen, type, LeftBrace>>
    \o PrintTokens(<<IdentifierToken(YChars)>>)
    \o <<RightBrace, IdentifierToken(FChars), LeftParen, NumberToken(1), Token("TOKEN_COMMA"),
         NumberToken(2), RightParen>>

\* { f(x T) { print(x) }  f(2) }
DeclaresLocal(type) ==
  <<LeftBrace, IdentifierToken(FChars), LeftParen, IdentifierToken(XChars), type, RightParen,
    LeftBrace>>
    \o PrintTokens(<<IdentifierToken(XChars)>>)
    \o <<RightBrace, IdentifierToken(FChars), LeftParen, NumberToken(2), RightParen,
         RightBrace>>

\* x := 2  f(y int) { print(y) }  f(arguments) rest,  f having a second
\* parameter if there are two arguments
Calls(arguments, rest) ==
  <<IdentifierToken(XChars), Token("TOKEN_COLON_EQUAL"), NumberToken(2),
    IdentifierToken(FChars), LeftParen, IdentifierToken(YChars), Token("TOKEN_INT")>>
    \o (IF \E k \in 1..Len(arguments) : arguments[k].type = "TOKEN_COMMA"
          THEN <<Token("TOKEN_COMMA"), IdentifierToken(XChars), Token("TOKEN_INT")>>
          ELSE <<>>)
    \o <<RightParen, LeftBrace>>
    \o PrintTokens(<<IdentifierToken(YChars)>>)
    \o <<RightBrace, IdentifierToken(FChars), LeftParen>> \o arguments \o <<RightParen>>
    \o rest

\* the arguments of a call that is to print 2, x being 2
CallArguments ==
  {<<IdentifierToken(XChars)>>,
   <<NumberToken(2)>>,
   <<IdentifierToken(XChars), Token("TOKEN_STAR"), NumberToken(1)>>,
   <<IdentifierToken(XChars), Token("TOKEN_COMMA"), NumberToken(1)>>,
   <<LeftParen, IdentifierToken(XChars), RightParen>>}

\* f() T { print(2) }  f()
NoParameters(type) ==
  <<IdentifierToken(FChars), LeftParen, RightParen>> \o type \o <<LeftBrace>>
    \o PrintTokens(<<NumberToken(2)>>)
    \o <<RightBrace, IdentifierToken(FChars), LeftParen, RightParen>>

LookaheadSources ==
  {DeclaresTyped(type) : type \in ParameterTypes}
    \cup {DeclaresTwo(type) : type \in ParameterTypes}
    \cup {DeclaresLocal(type) : type \in ParameterTypes}
    \cup {Calls(arguments, rest) : arguments \in CallArguments,
                                   rest \in {<<>>, <<LeftBrace, RightBrace>>}}
    \cup {NoParameters(type) : type \in {<<>>, <<Token("TOKEN_INT")>>, <<Token("TOKEN_VOID")>>}}

InitLookahead == \E source \in LookaheadSources : InitSources(<<<<Tokens(source)>>>>)

NextLookahead ==
  \/ compile
  \/ declaration
  \/ compileReturn
  \/ interpret
  \/ OP_CONSTANT
  \/ OP_NIL
  \/ OP_POP
  \/ OP_GET_LOCAL_1
  \/ OP_GET_LOCAL_2
  \/ OP_GET_GLOBAL
  \/ OP_DEFINE_GLOBAL
  \/ OP_MULTIPLY
  \/ OP_CALL
  \/ OP_CLOSURE
  \/ OP_PRINT
  \/ OP_RETURN

SpecLookahead == InitLookahead /\ [][NextLookahead]_vars

(***************************************************************************)
(* Declarations: one source,  x := e  print(x)  with := or one of  : T = , *)
(* : T :  and  :  in its place, T a type keyword or a type's name, e being *)
(* 2 or 1 + 1, at top level or in a block.                                 *)
(***************************************************************************)
Colon == Token("TOKEN_COLON")

\* what stands between the name and the value
DeclarationForms ==
  {<<Token("TOKEN_COLON_EQUAL")>>, <<Colon>>}
    \cup UNION {{<<Colon, type, Token("TOKEN_EQUAL")>>, <<Colon, type, Colon>>}
                 : type \in ParameterTypes}

DeclaredValues == {<<NumberToken(2)>>, <<NumberToken(1), Token("TOKEN_PLUS"), NumberToken(1)>>}

Declares(form, value) ==
  <<IdentifierToken(XChars)>> \o form \o value \o PrintTokens(<<IdentifierToken(XChars)>>)

DeclarationSources ==
  UNION {{Declares(form, value), <<LeftBrace>> \o Declares(form, value) \o <<RightBrace>>}
          : <<form, value>> \in DeclarationForms \X DeclaredValues}

InitDeclarations == \E source \in DeclarationSources : InitSources(<<<<Tokens(source)>>>>)

NextDeclarations ==
  \/ compile
  \/ declaration
  \/ compileReturn
  \/ interpret
  \/ OP_CONSTANT
  \/ OP_NIL
  \/ OP_POP
  \/ OP_GET_LOCAL_1
  \/ OP_GET_GLOBAL
  \/ OP_DEFINE_GLOBAL
  \/ OP_ADD
  \/ OP_PRINT
  \/ OP_RETURN

SpecDeclarations == InitDeclarations /\ [][NextDeclarations]_vars

(***************************************************************************)
(* scanner.c: the token of a name or a reserved word.  A source may be     *)
(* given as its characters; scanToken makes the first token of it.         *)
(***************************************************************************)
Text(chars) == [kind |-> "text", chars |-> chars]

isDigit(c) == c >= 48 /\ c <= 57
isAlpha(c) == (c >= 97 /\ c <= 122) \/ (c >= 65 /\ c <= 90) \/ c = 95

\* the characters from scanner.start to scanner.current when identifier()
\* has advanced over the letters and digits
Lexeme(chars) ==
  SubSeq(chars, 1,
         CHOOSE n \in 1..Len(chars) :
           /\ \A k \in 1..n : isAlpha(chars[k]) \/ isDigit(chars[k])
           /\ n < Len(chars) => ~(isAlpha(chars[n + 1]) \/ isDigit(chars[n + 1])))

\* memcmp is not reached when the lengths differ
checkKeyword(lexeme, start, length, rest, type) ==
  IF Len(lexeme) = start + length /\ SubSeq(lexeme, start + 1, start + length) = rest
    THEN type ELSE "TOKEN_IDENTIFIER"

identifierType(lexeme) ==
  CASE lexeme[1] = 97 -> checkKeyword(lexeme, 1, 2, <<110, 100>>, "TOKEN_AND")
    [] lexeme[1] = 98 ->
         IF Len(lexeme) > 1
           THEN CASE lexeme[2] = 111 -> checkKeyword(lexeme, 2, 2, <<111, 108>>, "TOKEN_BOOL")
                  [] lexeme[2] = 114 -> checkKeyword(lexeme, 2, 3, <<101, 97, 107>>, "TOKEN_BREAK")
                  [] lexeme[2] = 121 -> checkKeyword(lexeme, 2, 2, <<116, 101>>, "TOKEN_BYTE")
                  [] OTHER -> "TOKEN_IDENTIFIER"
           ELSE "TOKEN_IDENTIFIER"
    [] lexeme[1] = 99 -> checkKeyword(lexeme, 1, 7, <<111, 110, 116, 105, 110, 117, 101>>, "TOKEN_CONTINUE")
    [] lexeme[1] = 101 ->
         IF Len(lexeme) > 1
           THEN CASE lexeme[2] = 108 -> checkKeyword(lexeme, 2, 2, <<115, 101>>, "TOKEN_ELSE")
                  [] lexeme[2] = 120 -> checkKeyword(lexeme, 2, 4, <<116, 101, 114, 110>>, "TOKEN_EXTERN")
                  [] OTHER -> "TOKEN_IDENTIFIER"
           ELSE "TOKEN_IDENTIFIER"
    [] lexeme[1] = 102 ->
         IF Len(lexeme) > 1
           THEN CASE lexeme[2] = 97 -> checkKeyword(lexeme, 2, 3, <<108, 115, 101>>, "TOKEN_FALSE")
                  [] lexeme[2] = 108 -> checkKeyword(lexeme, 2, 3, <<111, 97, 116>>, "TOKEN_FLOAT")
                  [] lexeme[2] = 111 -> checkKeyword(lexeme, 2, 1, <<114>>, "TOKEN_FOR")
                  [] OTHER -> "TOKEN_IDENTIFIER"
           ELSE "TOKEN_IDENTIFIER"
    [] lexeme[1] = 105 ->
         IF Len(lexeme) > 1
           THEN CASE lexeme[2] = 102 -> IF Len(lexeme) = 2 THEN "TOKEN_IF" ELSE "TOKEN_IDENTIFIER"
                  [] lexeme[2] = 110 -> IF Len(lexeme) = 2 THEN "TOKEN_IN" ELSE checkKeyword(lexeme, 2, 1, <<116>>, "TOKEN_INT")
                  [] OTHER -> "TOKEN_IDENTIFIER"
           ELSE "TOKEN_IDENTIFIER"
    [] lexeme[1] = 109 -> checkKeyword(lexeme, 1, 4, <<97, 116, 99, 104>>, "TOKEN_MATCH")
    [] lexeme[1] = 110 ->
         IF Len(lexeme) > 1
           THEN CASE lexeme[2] = 105 -> checkKeyword(lexeme, 2, 1, <<108>>, "TOKEN_NIL")
                  [] lexeme[2] = 111 -> checkKeyword(lexeme, 2, 1, <<116>>, "TOKEN_NOT")
                  [] OTHER -> "TOKEN_IDENTIFIER"
           ELSE "TOKEN_IDENTIFIER"
    [] lexeme[1] = 111 -> checkKeyword(lexeme, 1, 1, <<114>>, "TOKEN_OR")
    [] lexeme[1] = 112 -> checkKeyword(lexeme, 1, 2, <<116, 114>>, "TOKEN_PTR")
    [] lexeme[1] = 114 -> checkKeyword(lexeme, 1, 5, <<101, 116, 117, 114, 110>>, "TOKEN_RETURN")
    [] lexeme[1] = 115 -> checkKeyword(lexeme, 1, 2, <<116, 114>>, "TOKEN_STR")
    [] lexeme[1] = 116 ->
         IF Len(lexeme) > 1
           THEN CASE lexeme[2] = 114 -> checkKeyword(lexeme, 2, 2, <<117, 101>>, "TOKEN_TRUE")
                  [] lexeme[2] = 121 -> checkKeyword(lexeme, 2, 2, <<112, 101>>, "TOKEN_TYPE")
                  [] OTHER -> "TOKEN_IDENTIFIER"
           ELSE "TOKEN_IDENTIFIER"
    [] lexeme[1] = 118 -> checkKeyword(lexeme, 1, 3, <<111, 105, 100>>, "TOKEN_VOID")
    [] lexeme[1] = 119 -> checkKeyword(lexeme, 1, 4, <<104, 105, 108, 101>>, "TOKEN_WHILE")
    [] OTHER -> "TOKEN_IDENTIFIER"

\* makeToken: the type and the text
makeToken(type, lexeme) == [type |-> type, value |-> lexeme]

identifier(chars) == makeToken(identifierType(Lexeme(chars)), Lexeme(chars))

\* errorToken: the text of the token is the message
errorToken(message) == [type |-> "TOKEN_ERROR", value |-> <<>>, message |-> message]

\* The characters of a text are followed by a NUL: chars[k], and 0 behind
\* the last one.
CharAt(chars, k) == IF k <= Len(chars) THEN chars[k] ELSE 0
\* the text from its k-th character on
From(chars, k) == SubSeq(chars, k, Len(chars))

\* while (peek() is one of `set') advance(), from the k-th character: the
\* place of the last character advanced over
RunEnd(chars, k, set) ==
  CHOOSE n \in (k - 1)..Len(chars) :
    /\ \A i \in k..n : chars[i] \in set
    /\ n < Len(chars) => chars[n + 1] \notin set

DecimalDigits == 48..57
isHexDigit(c) == isDigit(c) \/ (c >= 97 /\ c <= 102) \/ (c >= 65 /\ c <= 70)
HexDigits == (48..57) \cup (97..102) \cup (65..70)

\* the loop of skipWhitespace over a block comment, the text from
\* scanner.current on: it ends with the comment or with the text
RECURSIVE BlockComment(_, _)
BlockComment(chars, depth) ==
  IF depth = 0 \/ chars = <<>> THEN chars
  ELSE IF CharAt(chars, 1) = 47 /\ CharAt(chars, 2) = 42
    THEN BlockComment(From(chars, 3), depth + 1)
  ELSE IF CharAt(chars, 1) = 42 /\ CharAt(chars, 2) = 47
    THEN BlockComment(From(chars, 3), depth - 1)
  ELSE BlockComment(Tail(chars), depth)

\* skipWhitespace: the text left when it returns.  The line counted is no
\* part of a token here.
RECURSIVE skipWhitespace(_)
skipWhitespace(chars) ==
  IF CharAt(chars, 1) \in {32, 13, 9, 10} THEN skipWhitespace(Tail(chars))
  ELSE IF CharAt(chars, 1) = 47 /\ CharAt(chars, 2) = 47
    THEN skipWhitespace(From(chars, RunEnd(chars, 1, (1..9) \cup (11..255)) + 1))
  ELSE IF CharAt(chars, 1) = 47 /\ CharAt(chars, 2) = 42
    THEN skipWhitespace(BlockComment(From(chars, 3), 1))
  ELSE chars

\* number(), chars[1] being the digit consumed: [type, length]
scanNumber(chars) ==
  IF chars[1] = 48 /\ CharAt(chars, 2) \in {120, 88}
    THEN [type |-> "TOKEN_NUMBER", length |-> RunEnd(chars, 3, HexDigits)]
  ELSE IF chars[1] = 48 /\ CharAt(chars, 2) \in {98, 66}
    THEN [type |-> "TOKEN_NUMBER", length |-> RunEnd(chars, 3, {48, 49})]
  ELSE
  LET whole == RunEnd(chars, 2, DecimalDigits)
      hasFraction == CharAt(chars, whole + 1) = 46 /\ isDigit(CharAt(chars, whole + 2))
      fraction == IF hasFraction THEN RunEnd(chars, whole + 2, DecimalDigits) ELSE whole
      hasExponent == CharAt(chars, fraction + 1) \in {101, 69}
      sign == IF CharAt(chars, fraction + 2) \in {43, 45} THEN fraction + 2 ELSE fraction + 1
  IN  [type   |-> IF hasFraction \/ hasExponent THEN "TOKEN_NUMBER_FLOAT" ELSE "TOKEN_NUMBER",
       length |-> IF hasExponent THEN RunEnd(chars, sign + 1, DecimalDigits) ELSE fraction]

\* the loop of string(): scanner.current is the k-th character of the
\* text; the place of the closing quote, or the one behind the text
RECURSIVE StringEnd(_, _)
StringEnd(chars, k) ==
  IF k > Len(chars) \/ chars[k] = 34 THEN k
  ELSE IF chars[k] = 92 /\ CharAt(chars, k + 1) # 0 THEN StringEnd(chars, k + 2)
  ELSE StringEnd(chars, k + 1)

\* the tokens of one or two characters: [type, length]
Punctuation(chars) ==
  LET c == chars[1]
      one(type) == [type |-> type, length |-> 1]
      two(expected, type, otherwise) ==
        IF CharAt(chars, 2) = expected THEN [type |-> type, length |-> 2]
        ELSE [type |-> otherwise, length |-> 1]
  IN  CASE c = 40 -> one("TOKEN_LEFT_PAREN")
        [] c = 41 -> one("TOKEN_RIGHT_PAREN")
        [] c = 123 -> one("TOKEN_LEFT_BRACE")
        [] c = 125 -> one("TOKEN_RIGHT_BRACE")
        [] c = 91 -> one("TOKEN_LEFT_BRACKET")
        [] c = 93 -> one("TOKEN_RIGHT_BRACKET")
        [] c = 44 -> one("TOKEN_COMMA")
        [] c = 46 -> one("TOKEN_DOT")
        [] c = 59 -> one("TOKEN_SEMICOLON")
        [] c = 43 -> one("TOKEN_PLUS")
        [] c = 42 -> one("TOKEN_STAR")
        [] c = 47 -> one("TOKEN_SLASH")
        [] c = 37 -> one("TOKEN_PERCENT")
        [] c = 63 -> one("TOKEN_QUESTION")
        [] c = 64 -> one("TOKEN_AT")
        [] c = 38 -> one("TOKEN_AMPERSAND")
        [] c = 45 -> two(62, "TOKEN_ARROW", "TOKEN_MINUS")
        [] c = 33 -> two(61, "TOKEN_BANG_EQUAL", "TOKEN_BANG")
        [] c = 61 -> two(61, "TOKEN_EQUAL_EQUAL", "TOKEN_EQUAL")
        [] c = 60 -> two(61, "TOKEN_LESS_EQUAL", "TOKEN_LESS")
        [] c = 62 -> two(61, "TOKEN_GREATER_EQUAL", "TOKEN_GREATER")
        [] c = 58 -> two(61, "TOKEN_COLON_EQUAL", "TOKEN_COLON")
        [] OTHER -> [type |-> "TOKEN_ERROR", length |-> 1]

\* the token that starts with the first character of a text: [type, length],
\* the length of an error token being the characters consumed
TokenAt(chars) ==
  IF isAlpha(chars[1])
    THEN The({[type |-> identifierType(lexeme), length |-> Len(lexeme)]
               : lexeme \in {Lexeme(chars)}})
  ELSE IF isDigit(chars[1]) THEN scanNumber(chars)
  ELSE IF chars[1] = 34
    THEN The({IF end > Len(chars) THEN [type |-> "TOKEN_ERROR", length |-> Len(chars)]
              ELSE [type |-> "TOKEN_STRING", length |-> end]
               : end \in {StringEnd(chars, 2)}})
  ELSE Punctuation(chars)

scanTokenFromKeepsUnexpected(source) ==
  The({IF chars = <<>> THEN [token |-> makeToken("TOKEN_EOF", <<>>), rest |-> <<>>]
       ELSE The({IF made.type = "TOKEN_ERROR"
                   THEN [token |-> errorToken(IF chars[1] = 34 THEN "Unterminated string."
                                              ELSE "Unexpected character."),
                         rest  |-> IF chars[1] = 34 THEN <<>> ELSE chars]
                   ELSE [token |-> makeToken(made.type, SubSeq(chars, 1, made.length)),
                         rest  |-> From(chars, made.length + 1)]
                  : made \in {TokenAt(chars)}})
        : chars \in {skipWhitespace(source)}})

\* scanToken() on the text from scanner.current on: [token, rest], the
\* token and the text from the new scanner.current on
scanTokenFrom(source) ==
  The({IF chars = <<>> THEN [token |-> makeToken("TOKEN_EOF", <<>>), rest |-> <<>>]
       ELSE The({IF made.type = "TOKEN_ERROR"
                   THEN [token |-> errorToken(IF chars[1] = 34 THEN "Unterminated string."
                                              ELSE "Unexpected character."),
                         rest  |-> From(chars, made.length + 1)]
                   ELSE [token |-> makeToken(made.type, SubSeq(chars, 1, made.length)),
                         rest  |-> From(chars, made.length + 1)]
                  : made \in {TokenAt(chars)}})
        : chars \in {skipWhitespace(source)}})

\* strtoll(digits, NULL, base) on digits of the base alone
RECURSIVE DigitsValue(_, _)
DigitsValue(digits, base) ==
  IF digits = <<>> THEN 0
  ELSE DigitsValue(SubSeq(digits, 1, Len(digits) - 1), base) * base
       + (LET c == digits[Len(digits)]
          IN  IF isDigit(c) THEN c - 48 ELSE IF c >= 97 THEN c - 87 ELSE c - 55)

\* number() of compiler.c on the text of a TOKEN_NUMBER that holds no
\* ., e or E: strtoll stops at the first character that is no digit of
\* the base, and returns LLONG_MAX for what is larger
numberValue(lexeme) ==
  LET value ==
        IF Len(lexeme) > 2 /\ lexeme[1] = 48 /\ lexeme[2] \in {120, 88}
          THEN DigitsValue(From(lexeme, 3), 16)
        ELSE IF Len(lexeme) > 2 /\ lexeme[1] = 48 /\ lexeme[2] \in {98, 66}
          THEN DigitsValue(From(lexeme, 3), 2)
        ELSE DigitsValue(SubSeq(lexeme, 1, RunEnd(lexeme, 1, DecimalDigits)), 10)
  IN  IF value >= Pow2(INT64_BITS - 1) THEN Pow2(INT64_BITS - 1) - 1 ELSE value

\* the token as the parser reads it: of a number its value
ParserToken(token) ==
  IF token.type = "TOKEN_NUMBER"
    THEN [type |-> token.type, value |-> <<numberValue(token.value)>>]
    ELSE token

\* One scanToken() of advance().  The scanner is a function of its place
\* in the text, so the tokens the parser gets one at a time are the tokens
\* of the text in their order: a source given as its text is scanned
\* before compile() reads it, the tokens scanned so far being in front of
\* the text not scanned yet.  A text of blanks and comments is the empty
\* source.
scanNext ==
  /\ ~compiling.active
  /\ compiling.texts # <<>>
  /\ Head(compiling.texts) # <<>>
  /\ Head(compiling.texts)[Len(Head(compiling.texts))].kind = "text"
  /\ \E source \in {Head(compiling.texts)} :
       \E scanned \in {IF Len(source) > 1 THEN source[1].tokens ELSE <<>>} :
         \E next \in {scanTokenFrom(source[Len(source)].chars)} :
           compiling' =
             [compiling EXCEPT
                !.texts = <<IF next.token.type = "TOKEN_EOF"
                              THEN (IF scanned = <<>> THEN <<>> ELSE <<Tokens(scanned)>>)
                            ELSE <<Tokens(Append(scanned, ParserToken(next.token))),
                                   Text(next.rest)>>>> \o Tail(@)]
  /\ UNCHANGED <<heap, strings, sources>>
  /\ VmUnchanged

\* scanToken() at the start of a source whose first character is a letter
scanToken ==
  /\ ~compiling.active
  /\ compiling.texts # <<>>
  /\ Head(compiling.texts) # <<>>
  /\ Head(compiling.texts)[1].kind = "text"
  /\ isAlpha(Head(compiling.texts)[1].chars[1])
  /\ compiling' = [compiling EXCEPT
                     !.texts = <<<<Tokens(<<identifier(Head(@)[1].chars)>>)>>>> \o Tail(@)]
  /\ UNCHANGED <<heap, strings, sources>>
  /\ VmUnchanged

\* the reserved words of the language and their tokens
ReservedWords ==
  {[chars |-> <<105, 110, 116>>, type |-> "TOKEN_INT"],
   [chars |-> <<102, 108, 111, 97, 116>>, type |-> "TOKEN_FLOAT"],
   [chars |-> <<98, 111, 111, 108>>, type |-> "TOKEN_BOOL"],
   [chars |-> <<115, 116, 114>>, type |-> "TOKEN_STR"],
   [chars |-> <<112, 116, 114>>, type |-> "TOKEN_PTR"],
   [chars |-> <<98, 121, 116, 101>>, type |-> "TOKEN_BYTE"],
   [chars |-> <<118, 111, 105, 100>>, type |-> "TOKEN_VOID"],
   [chars |-> <<116, 114, 117, 101>>, type |-> "TOKEN_TRUE"],
   [chars |-> <<102, 97, 108, 115, 101>>, type |-> "TOKEN_FALSE"],
   [chars |-> <<110, 105, 108>>, type |-> "TOKEN_NIL"],
   [chars |-> <<105, 102>>, type |-> "TOKEN_IF"],
   [chars |-> <<101, 108, 115, 101>>, type |-> "TOKEN_ELSE"],
   [chars |-> <<102, 111, 114>>, type |-> "TOKEN_FOR"],
   [chars |-> <<105, 110>>, type |-> "TOKEN_IN"],
   [chars |-> <<119, 104, 105, 108, 101>>, type |-> "TOKEN_WHILE"],
   [chars |-> <<109, 97, 116, 99, 104>>, type |-> "TOKEN_MATCH"],
   [chars |-> <<114, 101, 116, 117, 114, 110>>, type |-> "TOKEN_RETURN"],
   [chars |-> <<98, 114, 101, 97, 107>>, type |-> "TOKEN_BREAK"],
   [chars |-> <<99, 111, 110, 116, 105, 110, 117, 101>>, type |-> "TOKEN_CONTINUE"],
   [chars |-> <<116, 121, 112, 101>>, type |-> "TOKEN_TYPE"],
   [chars |-> <<101, 120, 116, 101, 114, 110>>, type |-> "TOKEN_EXTERN"],
   [chars |-> <<115, 101, 108, 102>>, type |-> "TOKEN_SELF"],
   [chars |-> <<105, 109, 112, 111, 114, 116>>, type |-> "TOKEN_IMPORT"],
   [chars |-> <<101, 120, 112, 111, 114, 116>>, type |-> "TOKEN_EXPORT"],
   [chars |-> <<97, 110, 100>>, type |-> "TOKEN_AND"],
   [chars |-> <<111, 114>>, type |-> "TOKEN_OR"],
   [chars |-> <<110, 111, 116>>, type |-> "TOKEN_NOT"]}

\* the letters put behind and into the words: s, x, _ and 0
OtherChars == {115, 120, 95, 48}

\* the words, what is left of a word without its last letters, a word with
\* another character behind it or in the place of one of its letters
Lexemes ==
  UNION {{w.chars}
           \cup {SubSeq(w.chars, 1, n) : n \in 1..(Len(w.chars) - 1)}
           \cup {Append(w.chars, c) : c \in OtherChars}
           \cup {[w.chars EXCEPT ![k] = c] : k \in 2..Len(w.chars), c \in OtherChars}
          : w \in ReservedWords}

\* what follows the lexeme in the source: nothing, a blank or a parenthesis
InitScanner ==
  \E lexeme \in Lexemes, after \in {<<>>, <<32>>, <<40>>} :
    InitSources(<<<<Text(lexeme \o after)>>>>)

NextScanner == scanToken

SpecScanner == InitScanner /\ [][NextScanner]_vars

(***************************************************************************)
(* value.h, the NaN-boxed Value as its bits.  A word is its sign bit,      *)
(* `quiet': whether the bits of QNAN are all set, `tag': bits 49-48, and   *)
(* `low': the low 48 bits, INT_BITS of them here.  The word of a double    *)
(* that has not all bits of QNAN set is that double; an infinity and the   *)
(* NaN an operation makes are such doubles.                                *)
(***************************************************************************)
Word(sign, tag, low) ==
  [sign |-> sign, quiet |-> TRUE, tag |-> tag, low |-> low, double |-> NaN]
TAG_INT == 1
TAG_PTR == 2
SINGLETON_NIL == 1
SINGLETON_FALSE == 2
SINGLETON_TRUE == 3
\* x & 0x0000FFFFFFFFFFFF
Low48(x) == x % Pow2(INT_BITS)

nanbox_NIL_VAL == Word(0, 0, SINGLETON_NIL)
nanbox_FALSE_VAL == Word(0, 0, SINGLETON_FALSE)
nanbox_TRUE_VAL == Word(0, 0, SINGLETON_TRUE)

nanbox_IS_FLOAT(value) == ~value.quiet
nanbox_IS_NIL(value) == value = nanbox_NIL_VAL
\* ((value) | 1) == TRUE_VAL
nanbox_IS_BOOL(value) ==
  value.quiet /\ [value EXCEPT !.low = IF @ % 2 = 0 THEN @ + 1 ELSE @] = nanbox_TRUE_VAL
nanbox_IS_OBJ(value) == value.quiet /\ value.sign = 1
nanbox_IS_INT(value) == ~nanbox_IS_OBJ(value) /\ value.quiet /\ value.tag = TAG_INT
nanbox_IS_PTR(value) == ~nanbox_IS_OBJ(value) /\ value.quiet /\ value.tag = TAG_PTR
nanbox_IS_NUMBER(value) == nanbox_IS_FLOAT(value) \/ nanbox_IS_INT(value)

nanbox_AS_BOOL(value) == value = nanbox_TRUE_VAL
nanbox_AS_OBJ(value) == value.low
nanbox_AS_PTR(value) == value.low
nanbox_AS_INT(value) == nanbox_as_int(value.low, INT_BITS)
nanbox_as_float(value) == value.double
nanbox_as_number(value) ==
  IF nanbox_IS_FLOAT(value) THEN nanbox_as_float(value)
  ELSE IntToDouble(nanbox_AS_INT(value))

nanbox_BOOL_VAL(b) == IF b THEN nanbox_TRUE_VAL ELSE nanbox_FALSE_VAL
nanbox_OBJ_VAL(obj) == Word(1, 0, Low48(obj))
nanbox_PTR_VAL(ptr) == Word(0, TAG_PTR, Low48(ptr))
nanbox_INT_VAL(i) == Word(0, TAG_INT, Low48(i))
nanbox_float(d) == [sign |-> 0, quiet |-> FALSE, tag |-> 0, low |-> 0, double |-> d]

nanbox_valuesEqual(a, b) ==
  IF nanbox_IS_NUMBER(a) /\ nanbox_IS_NUMBER(b)
    THEN DoubleEq(nanbox_as_number(a), nanbox_as_number(b))
    ELSE a = b

nanbox_isFalsey(value) ==
  nanbox_IS_NIL(value) \/ (nanbox_IS_BOOL(value) /\ ~nanbox_AS_BOOL(value))

(***************************************************************************)
(* Values: one open chunk of CONSTANT, NIL, TRUE, ADD, SUBTRACT, MULTIPLY, *)
(* NEGATE, EQUAL and NOT over ints at the ends of the payload and of       *)
(* int64_t, two floats and a string.                                       *)
(***************************************************************************)
ValuesFunctions(i) ==
  [heap    |-> Append(i.heap,
                      FunctionObj(0, 0, NULL, <<>>,
                                  <<INT_VAL(1),
                                    INT_VAL(Pow2(INT_BITS - 1) - 1),
                                    INT_VAL(-Pow2(INT_BITS - 1)),
                                    INT_VAL(Pow2(INT64_BITS - 1) - 1),
                                    FLOAT_VAL(3), FLOAT_VAL(NaN),
                                    OBJ_VAL(Interned(i.heap, i.strings, AName))>>)),
   strings |-> i.strings]

ValuesCompiled == The({ValuesFunctions(i) : i \in {Interning(initVM(NAN_BOXING), <<AName>>)}})

ValuesEmitted ==
  {"OP_CONSTANT", "OP_NIL", "OP_TRUE", "OP_ADD", "OP_SUBTRACT", "OP_MULTIPLY", "OP_NEGATE",
   "OP_EQUAL", "OP_NOT"}

InitValues == InitWith(ValuesCompiled, <<Len(heap)>>, ValuesEmitted)

NextValues ==
  \/ interpret
  \/ OP_CONSTANT
  \/ OP_NIL
  \/ OP_TRUE
  \/ OP_ADD
  \/ OP_SUBTRACT
  \/ OP_MULTIPLY
  \/ OP_NEGATE
  \/ OP_EQUAL
  \/ OP_NOT

SpecValues == InitValues /\ [][NextValues]_vars

(***************************************************************************)
(* Captured locals: sources whose functions capture a local of a block or  *)
(* of a function, compiled and run.                                        *)
(***************************************************************************)
CapturedValues == 1..2

\* name()
CallOf(name) == <<IdentifierToken(name), LeftParen, RightParen>>

\* x := n  f() { return x }
Captures(n) ==
  <<IdentifierToken(XChars), Token("TOKEN_COLON_EQUAL"), NumberToken(n),
    IdentifierToken(FChars), LeftParen, RightParen, LeftBrace,
    Token("TOKEN_RETURN"), IdentifierToken(XChars), RightBrace>>

\* { x := n  f() { return x }  print(f()) }  print(n)
CapturedInBlock(n) ==
  <<LeftBrace>> \o Captures(n) \o PrintTokens(CallOf(FChars)) \o <<RightBrace>>
    \o PrintTokens(<<NumberToken(n)>>)

\* y() { x := n  f() { return x }  return f }  t := y()  print(t())
CapturedInFunction(n) ==
  CallOf(YChars) \o <<LeftBrace>> \o Captures(n)
    \o <<Token("TOKEN_RETURN"), IdentifierToken(FChars), RightBrace,
         IdentifierToken(TChars), Token("TOKEN_COLON_EQUAL")>> \o CallOf(YChars)
    \o PrintTokens(CallOf(TChars))

\* y() { { x := n  f() { return x } }  return n }  print(y())
CapturedInInnerBlock(n) ==
  CallOf(YChars) \o <<LeftBrace, LeftBrace>> \o Captures(n)
    \o <<RightBrace, Token("TOKEN_RETURN"), NumberToken(n), RightBrace>>
    \o PrintTokens(CallOf(YChars))

\* y() { x := n  f() { g() { return x }  return g }  return f }
\* t := y()  h := t()  print(h())
CapturedThroughFunction(n) ==
  CallOf(YChars)
    \o <<LeftBrace, IdentifierToken(XChars), Token("TOKEN_COLON_EQUAL"), NumberToken(n)>>
    \o CallOf(FChars) \o <<LeftBrace>>
    \o CallOf(GChars) \o <<LeftBrace, Token("TOKEN_RETURN"), IdentifierToken(XChars), RightBrace,
                           Token("TOKEN_RETURN"), IdentifierToken(GChars), RightBrace,
                           Token("TOKEN_RETURN"), IdentifierToken(FChars), RightBrace,
                           IdentifierToken(TChars), Token("TOKEN_COLON_EQUAL")>>
    \o CallOf(YChars) \o <<IdentifierToken(HChars), Token("TOKEN_COLON_EQUAL")>>
    \o CallOf(TChars) \o PrintTokens(CallOf(HChars))

\* { x := n  y := x  print(y) }  print(n), which captures nothing
CapturesNothing(n) ==
  <<LeftBrace, IdentifierToken(XChars), Token("TOKEN_COLON_EQUAL"), NumberToken(n),
    IdentifierToken(YChars), Token("TOKEN_COLON_EQUAL"), IdentifierToken(XChars)>>
    \o PrintTokens(<<IdentifierToken(YChars)>>) \o <<RightBrace>>
    \o PrintTokens(<<NumberToken(n)>>)

UpvalueSources ==
  UNION {{CapturedInBlock(n), CapturedInFunction(n), CapturedInInnerBlock(n),
          CapturedThroughFunction(n), CapturesNothing(n)}
           : n \in CapturedValues}

InitUpvalues == \E source \in UpvalueSources : InitSources(<<<<Tokens(source)>>>>)

NextUpvalues ==
  \/ compile
  \/ declaration
  \/ compileReturn
  \/ interpret
  \/ OP_CONSTANT
  \/ OP_NIL
  \/ OP_POP
  \/ OP_GET_LOCAL_1
  \/ OP_GET_LOCAL_2
  \/ OP_GET_GLOBAL
  \/ OP_DEFINE_GLOBAL
  \/ OP_GET_UPVALUE
  \/ OP_CALL
  \/ OP_CLOSURE
  \/ OP_CLOSE_UPVALUE
  \/ OP_PRINT
  \/ OP_RETURN

SpecUpvalues == InitUpvalues /\ [][NextUpvalues]_vars

(***************************************************************************)
(* Fields and methods: one open chunk of STRUCT_DEF, STRUCT_FIELD, CLOSURE,*)
(* METHOD, CONSTANT, CALL, GET_FIELD and SET_FIELD; its constants are an   *)
(* int, the function m() and the names x and m, each of which can be made  *)
(* the field and a method of the struct.                                   *)
(***************************************************************************)
FieldsFunctions(i) ==
  LET m == NewAddr(i.heap)
      x == Interned(i.heap, i.strings, XName)
      name == Interned(i.heap, i.strings, MethodName)
      pool == <<INT_VAL(1), OBJ_VAL(m), OBJ_VAL(x), OBJ_VAL(name)>>
  IN  [heap    |-> i.heap \o <<FunctionObj(0, 0, name, <<>>, pool),
                                FunctionObj(0, 0, NULL, <<>>, pool)>>,
       strings |-> i.strings]

FieldsCompiled ==
  The({FieldsFunctions(i) : i \in {Interning(initVM(NAN_BOXING), <<XName, MethodName>>)}})

FieldsEmitted ==
  {"OP_CONSTANT", "OP_CLOSURE", "OP_CALL", "OP_STRUCT_DEF", "OP_STRUCT_FIELD", "OP_METHOD",
   "OP_GET_FIELD", "OP_SET_FIELD"}

InitFields == InitWith(FieldsCompiled, <<Len(heap)>>, FieldsEmitted)

NextFields ==
  \/ interpret
  \/ OP_CONSTANT
  \/ OP_CLOSURE
  \/ OP_CALL
  \/ OP_STRUCT_DEF
  \/ OP_STRUCT_FIELD
  \/ OP_METHOD
  \/ OP_GET_FIELD
  \/ OP_SET_FIELD

SpecFields == InitFields /\ [][NextFields]_vars

(***************************************************************************)
(* Statements: a session of two sources, the module  y := 1  and then       *)
(*   f() { }  { a := 1  S  b := 2  print(b) }                               *)
(* or                                                                        *)
(*   f() { }  a := 1  S  { b := 2  print(b) }                                *)
(* where S is one statement of each kind: an assignment, a call, print, an  *)
(* expression, if with and without else, for, a block, import and, at top   *)
(* level, a type declaration.  The import reads the module or the source    *)
(* itself.                                                                   *)
(***************************************************************************)
MChars == <<109>>

ModuleSource == <<VarDecl(YChars, Number(1))>>

StatementsInBlock ==
  {<<Assign(AName, Number(2))>>,
   <<CallStmt(FChars, <<>>)>>,
   PrintOf(<<NumberToken(1)>>),
   <<ExprStmt(Number(1))>>,
   <<If(Literal("true")), VarDecl(IChars, Number(0)), Close>>,
   <<If(Literal("false")), VarDecl(IChars, Number(0)), Else, VarDecl(JChars, Number(0)), Close>>,
   <<VarDecl(IChars, Number(0)), For(Binary(Variable(IChars), "<", Number(1))),
       Assign(IChars, Binary(Variable(IChars), "+", Number(1))), Close>>,
   <<For(Literal("false")), VarDecl(IChars, Number(0)), Close>>,
   <<Open, VarDecl(IChars, Number(0)), Close>>,
   <<Import(MChars)>>}

TypeStatements ==
  {TypeBody(kinds) : kinds \in {<<>>, <<"field">>, <<"field", "method">>, <<"method", "field">>}}

PrintsB == <<VarDecl(BChars, Number(2))>> \o PrintOf(<<IdentifierToken(BChars)>>)

InBlock(s) ==
  <<Fn(FChars), Close, Open, VarDecl(AName, Number(1))>> \o s \o PrintsB \o <<Close>>

AtTopLevel(s) ==
  <<Fn(FChars), Close, VarDecl(AName, Number(1))>> \o s \o <<Open>> \o PrintsB \o <<Close>>

StatementSources ==
  {InBlock(s) : s \in StatementsInBlock}
    \cup {AtTopLevel(s) : s \in StatementsInBlock \cup TypeStatements}

InitStatements ==
  \E source \in StatementSources : InitSources(<<ModuleSource, source>>)

NextStatements ==
  \/ compile
  \/ declaration
  \/ compileReturn
  \/ interpret
  \/ OP_CONSTANT
  \/ OP_NIL
  \/ OP_TRUE
  \/ OP_FALSE
  \/ OP_POP
  \/ OP_GET_LOCAL_1
  \/ OP_GET_LOCAL_2
  \/ OP_SET_LOCAL
  \/ OP_GET_GLOBAL
  \/ OP_DEFINE_GLOBAL
  \/ OP_SET_GLOBAL
  \/ OP_CALL
  \/ OP_CLOSURE
  \/ OP_IMPORT
  \/ OP_STRUCT_DEF
  \/ OP_STRUCT_FIELD
  \/ OP_METHOD
  \/ OP_ADD
  \/ OP_LESS
  \/ OP_PRINT
  \/ OP_JUMP
  \/ OP_JUMP_IF_FALSE
  \/ OP_LOOP
  \/ OP_RETURN

SpecStatements == InitStatements /\ [][NextStatements]_vars

(***************************************************************************)
(* Kept closures: a REPL session of three lines,                            *)
(*   h := 0                                                                  *)
(*   { x := n  f() { return x }  h = f  print(-nil) }                        *)
(*   print(h())                                                              *)
(* the second line also without its runtime error, or inside a function     *)
(* that is called, y() { ... }  y(), and f also as  f() { x = 9  return x }.*)
(***************************************************************************)
\* x := n  f() { return x }  h = f        (f() { x = 9  return x } if it writes)
KeepsClosure(n, writes) ==
  <<IdentifierToken(XChars), Token("TOKEN_COLON_EQUAL"), NumberToken(n),
    IdentifierToken(FChars), LeftParen, RightParen, LeftBrace>>
    \o (IF writes THEN <<IdentifierToken(XChars), Token("TOKEN_EQUAL"), NumberToken(9)>>
        ELSE <<>>)
    \o <<Token("TOKEN_RETURN"), IdentifierToken(XChars), RightBrace,
         IdentifierToken(HChars), Token("TOKEN_EQUAL"), IdentifierToken(FChars)>>

\* print(-nil)
FailingLine == PrintTokens(<<Token("TOKEN_MINUS"), Token("TOKEN_NIL")>>)

KeepingLine(n, writes, fails, inFunction) ==
  (IF inFunction THEN CallOf(YChars) ELSE <<>>)
    \o <<LeftBrace>> \o KeepsClosure(n, writes)
    \o (IF fails THEN FailingLine ELSE <<>>) \o <<RightBrace>>
    \o (IF inFunction THEN CallOf(YChars) ELSE <<>>)

KeptSession(n, writes, fails, inFunction) ==
  <<<<Tokens(<<IdentifierToken(HChars), Token("TOKEN_COLON_EQUAL"), NumberToken(0)>>)>>,
    <<Tokens(KeepingLine(n, writes, fails, inFunction))>>,
    <<Tokens(PrintTokens(CallOf(HChars)))>>>>

KeptSessions ==
  {KeptSession(n, writes, fails, inFunction) :
     n \in CapturedValues, writes \in BOOLEAN, fails \in BOOLEAN, inFunction \in BOOLEAN}

InitKept == \E texts \in KeptSessions : InitSources(texts)

NextKept ==
  \/ compile
  \/ declaration
  \/ compileReturn
  \/ interpret
  \/ OP_CONSTANT
  \/ OP_NIL
  \/ OP_POP
  \/ OP_GET_LOCAL_2
  \/ OP_GET_GLOBAL
  \/ OP_DEFINE_GLOBAL
  \/ OP_SET_GLOBAL
  \/ OP_GET_UPVALUE
  \/ OP_SET_UPVALUE
  \/ OP_CALL
  \/ OP_CLOSURE
  \/ OP_CLOSE_UPVALUE
  \/ OP_NEGATE
  \/ OP_PRINT
  \/ OP_RETURN

SpecKept == InitKept /\ [][NextKept]_vars

(***************************************************************************)
(* Tables: one source,  if false { ... }  around locals, upvalues or the    *)
(* fields of a type declaration, as many as the table holds, one more and   *)
(* two more (for the locals slot 0 counts), or around a type declaration    *)
(* with a field after a method, and with a method after a field; and one   *)
(* local too many followed by a block that declares another one.           *)
(***************************************************************************)
\* one local too many, and after the error a block with another one
LocalsAfterError ==
  IfFalse([k \in 1..UINT8_COUNT |-> VarDecl(NameA(k), Literal("nil"))]
            \o <<Open, VarDecl(NameB(1), Literal("nil")), Close>>)

TableSources ==
  {LocalsSource(count - 1) : count \in Around(UINT8_COUNT + 1)}
    \cup {LocalsAfterError}
    \cup {UpvaluesSource(count) : count \in Around(UINT8_COUNT + 1)}
    \cup {TypeSource(count) : count \in Around(UINT8_COUNT + 1)}
    \cup {IfFalse(TypeBody(kinds)) : kinds \in {<<"method", "field">>, <<"field", "method">>}}

InitTables == \E source \in TableSources : InitSources(<<source>>)

NextTables ==
  \/ compile
  \/ declaration
  \/ compileReturn
  \/ interpret
  \/ OP_NIL
  \/ OP_FALSE
  \/ OP_POP
  \/ OP_JUMP_IF_FALSE
  \/ OP_RETURN

SpecTables == InitTables /\ [][NextTables]_vars

(***************************************************************************)
(* Field names: the scripts  type t { f1: int ... fn: int }  with up to    *)
(* MaxMapFields fields, as typeDeclaration compiles them; the field names  *)
(* are all different, or one of them is declared twice.                    *)
(***************************************************************************)
\* more than the 8 fields up to which do_GET_FIELD scans the names
MaxMapFields == 9

MapFieldName(k) == <<102, 96 + k>>

\* the names of n fields, the field `twice' having the name of field `first'
MapFieldNames(n, first, twice) ==
  [k \in 1..n |-> MapFieldName(IF k = twice THEN first ELSE k)]

MapFieldLists ==
  {MapFieldNames(n, 1, 1) : n \in 1..MaxMapFields}
    \cup {MapFieldNames(n, first, twice) :
            n \in {8, MaxMapFields}, first \in {1, 2}, twice \in {3, 8}}

\* STRUCT_DEF n t; STRUCT_FIELD f1; ...; DEFINE_GLOBAL t; return
FieldMapFunctions(i, names) ==
  LET pool == [k \in 1..(Len(names) + 1) |->
                 OBJ_VAL(Interned(i.heap, i.strings,
                                  IF k = 1 THEN TChars ELSE names[k - 1]))]
      code == <<Instr("OP_STRUCT_DEF", Len(names), 0, <<>>)>>
                \o [k \in 1..Len(names) |-> Instr("OP_STRUCT_FIELD", k, 0, <<>>)]
                \o <<Instr("OP_DEFINE_GLOBAL", 0, 0, <<>>), Instr("OP_NIL", 0, 0, <<>>),
                     Instr("OP_RETURN", 0, 0, <<>>)>>
  IN  [heap    |-> Append(i.heap, FunctionObj(0, 0, NULL, code, pool)),
       strings |-> i.strings]

FieldMapCompiled(names) ==
  The({FieldMapFunctions(i, names) :
         i \in {Interning(initVM(NAN_BOXING), <<TChars>> \o names)}})

InitFieldMap ==
  \E names \in MapFieldLists : InitWith(FieldMapCompiled(names), <<Len(heap)>>, {})

NextFieldMap ==
  \/ interpret
  \/ OP_STRUCT_DEF
  \/ OP_STRUCT_FIELD
  \/ OP_DEFINE_GLOBAL
  \/ OP_NIL
  \/ OP_RETURN

SpecFieldMap == InitFieldMap /\ [][NextFieldMap]_vars

(***************************************************************************)
(* compile() on the text of a source.  The texts are all the short ones    *)
(* over the characters of blanks, comments, names, numbers and strings,    *)
(* some longer ones, and programs of type declarations, functions and      *)
(* blocks with one word changed, left out or put in.  Their tokens are     *)
(* those statementTokens reads: no text holds if, for, else or import, a   *)
(* period or a bracket.                                                    *)
(***************************************************************************)
MaxTextLength == 3

\* blank, newline, / * a b x 0 1 " \ and #
ScannerChars == {32, 10, 47, 42, 97, 98, 120, 48, 49, 34, 92, 35}

\* nested and open comments, escapes in strings, the numbers of the three
\* bases, tabs and carriage returns
LongTexts ==
  {<<47, 42, 47, 42, 42, 47, 42, 47, 97>>,
   <<47, 42, 32, 47, 42, 32, 42, 47, 32, 97>>,
   <<47, 47, 32, 97, 10, 98>>,
   <<34, 97, 92, 34, 98, 34, 32, 120>>,
   <<34, 97, 92>>,
   <<48, 120, 49, 97, 70, 32, 48, 98, 49, 48, 49, 32, 48, 98, 50, 32, 48, 120, 103, 32, 49, 50, 97, 98>>,
   <<97, 32, 47, 42, 32, 120, 32, 42, 47, 32, 58, 61, 32, 49, 32, 47, 47, 32, 99>>,
   <<9, 97, 13, 10, 61, 32, 61, 32, 61, 61, 32, 49>>,
   <<97, 32, 58, 61, 32, 34, 98, 34, 32, 35, 32, 43, 32, 49, 32, 47>>,
   <<35, 34>>}

\* the words of the programs: type return int a b 1 { } ( ) : := = , #
Words ==
  {<<116, 121, 112, 101>>,
   <<114, 101, 116, 117, 114, 110>>,
   <<105, 110, 116>>,
   <<97>>,
   <<98>>,
   <<49>>,
   <<123>>,
   <<125>>,
   <<40>>,
   <<41>>,
   <<58>>,
   <<58, 61>>,
   <<61>>,
   <<44>>,
   <<35>>}

Programs ==
  {<<<<116, 121, 112, 101>>, <<97>>, <<123>>, <<97>>, <<58>>, <<105, 110, 116>>, <<44>>, <<98>>, <<58>>, <<97>>, <<125>>>>,
   <<<<116, 121, 112, 101>>, <<97>>, <<123>>, <<97>>, <<58>>, <<105, 110, 116>>, <<98>>, <<40>>, <<97>>, <<41>>, <<123>>, <<114, 101, 116, 117, 114, 110>>, <<97>>, <<125>>, <<125>>>>,
   <<<<97>>, <<40>>, <<98>>, <<105, 110, 116>>, <<41>>, <<123>>, <<114, 101, 116, 117, 114, 110>>, <<98>>, <<125>>, <<97>>, <<40>>, <<49>>, <<41>>>>,
   <<<<123>>, <<97>>, <<58, 61>>, <<49>>, <<123>>, <<98>>, <<58, 61>>, <<97>>, <<125>>, <<125>>>>}

\* a program with one word replaced, left out or put in
Changed(original) ==
  {original}
    \cup {[original EXCEPT ![k] = word] : k \in 1..Len(original), word \in Words}
    \cup {SubSeq(original, 1, k - 1) \o SubSeq(original, k + 1, Len(original))
            : k \in 1..Len(original)}
    \cup {SubSeq(original, 1, k) \o <<word>> \o SubSeq(original, k + 1, Len(original))
            : k \in 0..Len(original), word \in Words}

\* the words with a blank between them
RECURSIVE Spaced(_)
Spaced(words) ==
  IF Len(words) <= 1 THEN (IF words = <<>> THEN <<>> ELSE words[1])
  ELSE words[1] \o <<32>> \o Spaced(Tail(words))

SourceTexts ==
  UNION {[1..n -> ScannerChars] : n \in 0..MaxTextLength}
    \cup LongTexts
    \cup {Spaced(words) : words \in UNION {Changed(original) : original \in Programs}}

InitTerminates == \E chars \in SourceTexts : InitSources(<<<<Text(chars)>>>>)

NextTerminates ==
  \/ scanNext
  \/ compile
  \/ declaration
  \/ compileReturn

SpecTerminates == InitTerminates /\ [][NextTerminates]_vars

\* compile() is one thread of one process: the step it is at is taken
SpecTerminatesFair ==
  /\ InitTerminates
  /\ [][NextTerminates]_vars
  /\ WF_vars(scanNext)
  /\ WF_vars(compile)
  /\ WF_vars(declaration)
  /\ WF_vars(compileReturn)

(***************************************************************************)
(* Properties.                                                             *)
(***************************************************************************)
\* the step from this state to the next executes instruction `op'
(***************************************************************************)
(* Method calls: the open chunk of the fields and methods with INVOKE and  *)
(* GET_LOCAL, and without SET_FIELD; the method m() takes no argument, so  *)
(* that INVOKE m 1 has one argument too many, and an INVOKE inside m()     *)
(* meets the frame limit.                                                  *)
(***************************************************************************)
InvokeEmitted ==
  {"OP_CONSTANT", "OP_CLOSURE", "OP_CALL", "OP_STRUCT_DEF", "OP_STRUCT_FIELD", "OP_METHOD",
   "OP_GET_FIELD", "OP_INVOKE", "OP_GET_LOCAL"}

InitInvoke == InitWith(FieldsCompiled, <<Len(heap)>>, InvokeEmitted)

NextInvoke ==
  \/ interpret
  \/ OP_CONSTANT
  \/ OP_CLOSURE
  \/ OP_CALL
  \/ OP_STRUCT_DEF
  \/ OP_STRUCT_FIELD
  \/ OP_METHOD
  \/ OP_GET_FIELD
  \/ OP_INVOKE
  \/ OP_GET_LOCAL

SpecInvoke == InitInvoke /\ [][NextInvoke]_vars

(***************************************************************************)
(* Superinstructions: pairs of scripts, the first with an unfused sequence *)
(* and the second with the superinstruction in its place, over the values  *)
(* 0, 1, two large ints, 1.5, the string a and nil as the local (slot 1)   *)
(* and as the constant.  Each script prints the value its sequence leaves  *)
(* and is run after the other.                                             *)
(***************************************************************************)
SuperValues(a) ==
  <<INT_VAL(0), INT_VAL(1), INT_VAL(Pow2(INT64_BITS - 1) - 4),
    INT_VAL(Pow2(INT64_BITS - 1) - 3), FLOAT_VAL(3), OBJ_VAL(a), NIL_VAL>>

SuperIndexes == 0..6

\* { var ...; ...; print(top) }  with the block's locals popped at its end
Printing(code, locals) ==
  code \o <<Instr("OP_PRINT", 0, 0, <<>>)>>
       \o [k \in 1..locals |-> Instr("OP_POP", 0, 0, <<>>)]
       \o <<Instr("OP_NIL", 0, 0, <<>>), Instr("OP_RETURN", 0, 0, <<>>)>>

SuperPair(kind, unfused, fused) ==
  LET locals == IF kind = "local" THEN 3 ELSE 1 IN
  [kind |-> kind, unfused |-> Printing(unfused, locals),
   fused |-> Printing(fused, locals)]

\* local := constant l, then  local <op> constant c
BinaryPair(kind, op, fusedOp, l, c) ==
  SuperPair(kind,
            <<Instr("OP_CONSTANT", l, 0, <<>>), Instr("OP_GET_LOCAL", 1, 0, <<>>),
              Instr("OP_CONSTANT", c, 0, <<>>), Instr(op, 0, 0, <<>>)>>,
            <<Instr("OP_CONSTANT", l, 0, <<>>), Instr(fusedOp, 1, c, <<>>)>>)

\* local := constant l, then  local = local + 1, then the local
IncPair(l) ==
  SuperPair("inc",
            <<Instr("OP_CONSTANT", l, 0, <<>>), Instr("OP_GET_LOCAL", 1, 0, <<>>),
              Instr("OP_CONSTANT", 1, 0, <<>>), Instr("OP_ADD", 0, 0, <<>>),
              Instr("OP_SET_LOCAL", 1, 0, <<>>), Instr("OP_POP", 0, 0, <<>>),
              Instr("OP_GET_LOCAL", 1, 0, <<>>)>>,
            <<Instr("OP_CONSTANT", l, 0, <<>>), Instr("OP_INC_LOCAL", 1, 0, <<>>),
              Instr("OP_GET_LOCAL", 1, 0, <<>>)>>)

\* local := constant l, then  [0, 1.5][local], or  0[local]
IndexPair(l, array) ==
  LET indexed == IF array
                   THEN <<Instr("OP_CONSTANT", l, 0, <<>>), Instr("OP_CONSTANT", 0, 0, <<>>),
                          Instr("OP_CONSTANT", 4, 0, <<>>), Instr("OP_ARRAY", 2, 0, <<>>)>>
                   ELSE <<Instr("OP_CONSTANT", l, 0, <<>>), Instr("OP_CONSTANT", 0, 0, <<>>)>>
  IN  SuperPair("index",
                indexed \o <<Instr("OP_GET_LOCAL", 1, 0, <<>>),
                             Instr("OP_INDEX_GET", 0, 0, <<>>)>>,
                Append(indexed, Instr("OP_INDEX_GET_LOCAL", 1, 0, <<>>)))

\* three locals, then local k
GetLocalPair(k) ==
  LET locals == <<Instr("OP_CONSTANT", 1, 0, <<>>), Instr("OP_CONSTANT", 4, 0, <<>>),
                  Instr("OP_CONSTANT", 5, 0, <<>>)>>
  IN  SuperPair("local",
                Append(locals, Instr("OP_GET_LOCAL", k, 0, <<>>)),
                Append(locals, Instr(<<"OP_GET_LOCAL_0", "OP_GET_LOCAL_1", "OP_GET_LOCAL_2",
                                       "OP_GET_LOCAL_3">>[k + 1], 0, 0, <<>>)))

SuperPairs ==
  {BinaryPair("add", "OP_ADD", "OP_ADD_LOCAL_CONST", l, c) : l, c \in SuperIndexes}
    \cup {BinaryPair("less", "OP_LESS", "OP_LESS_LOCAL_CONST", l, c) : l, c \in SuperIndexes}
    \cup {IncPair(l) : l \in SuperIndexes}
    \cup {IndexPair(l, array) : l \in SuperIndexes, array \in BOOLEAN}
    \cup {GetLocalPair(k) : k \in 0..3}

SuperFunctions(i, pair) ==
  LET pool == SuperValues(Interned(i.heap, i.strings, AName)) IN
  [heap    |-> i.heap \o <<FunctionObj(0, 0, NULL, pair.unfused, pool),
                            FunctionObj(0, 0, NULL, pair.fused, pool)>>,
   strings |-> i.strings]

SuperCompiled(pair) ==
  The({SuperFunctions(i, pair) : i \in {Interning(initVM(NAN_BOXING), <<AName>>)}})

InitSuper ==
  \E pair \in SuperPairs : InitWith(SuperCompiled(pair), <<Len(heap) - 1, Len(heap)>>, {})

NextSuper ==
  \/ interpret
  \/ OP_CONSTANT
  \/ OP_NIL
  \/ OP_POP
  \/ OP_GET_LOCAL
  \/ OP_GET_LOCAL_0
  \/ OP_GET_LOCAL_1
  \/ OP_GET_LOCAL_2
  \/ OP_GET_LOCAL_3
  \/ OP_SET_LOCAL
  \/ OP_ADD
  \/ OP_LESS
  \/ OP_ARRAY
  \/ OP_INDEX_GET
  \/ OP_INC_LOCAL
  \/ OP_ADD_LOCAL_CONST
  \/ OP_LESS_LOCAL_CONST
  \/ OP_INDEX_GET_LOCAL
  \/ OP_PRINT
  \/ OP_RETURN

SpecSuper == InitSuper /\ [][NextSuper]_vars

Executes(op) == Running /\ steps' = steps + 1 /\ last'.op = op

IsUpvalue(h, k) == h[k].type = "OBJ_UPVALUE"

\* C1: when RETURN pops a frame, every upvalue that pointed at a stack slot at
\* or above the frame's slots base is closed (it holds the slot's value and
\* no longer points into the stack) and is off the open list, whichever
\* dispatch the build uses.
C1_ReturnClosesUpvalues ==
  [][Executes("OP_RETURN") =>
       /\ \A k \in 1..Len(heap) :
            IsUpvalue(heap, k) /\ heap[k].location >= CurFrame.slots
              => heap'[k] = UpvalueObj(CLOSED, stack[heap[k].location])
       /\ \A k \in 1..Len(openUpvalues') :
            /\ heap'[openUpvalues'[k]].location # CLOSED
            /\ heap'[openUpvalues'[k]].location < CurFrame.slots]_vars

\* the argument count of the call instruction `i'
ArgCount(i) == IF i.op = "OP_INVOKE" THEN i.b ELSE i.a

\* the closure a CALL or INVOKE of this state with `argCount' arguments would
\* enter: the callee, the method of the bound callee, or the receiver's
\* method named by constant `index'; NULL when it would enter none
Target(op, index, argCount) ==
  LET callee == peek(argCount) IN
  IF op = "OP_CALL"
    THEN IF IS_CLOSURE(callee) THEN AS_OBJ(callee)
         ELSE IF IS_BOUND_METHOD(callee) THEN heap[AS_OBJ(callee)].method
         ELSE NULL
    ELSE IF IS_STRUCT(callee)
           THEN LET method == tableGet(heap, heap[heap[AS_OBJ(callee)].definition].methods,
                                       READ_STRING(index))
                IN  IF method[1] THEN AS_OBJ(method[2]) ELSE NULL
           ELSE NULL

Arity(closure) == heap[heap[closure].function].arity

ExpectedArguments == "Expected %d arguments but got %d."

\* C3: a CALL of a closure or bound method, or an INVOKE, whose argument count
\* differs from the arity of the function it would enter raises the runtime
\* error "Expected <arity> arguments but got <argc>." and pushes no frame;
\* so every frame a CALL or INVOKE pushes runs a function whose arity is the
\* argument count.
C3_ArityChecked ==
  [][Executes("OP_CALL") \/ Executes("OP_INVOKE") =>
       LET argCount == ArgCount(last')
           target == Target(last'.op, last'.a, argCount)
       IN  /\ target # NULL /\ argCount # Arity(target)
              => /\ result' = "INTERPRET_RUNTIME_ERROR"
                 /\ errorMsg' = [format |-> ExpectedArguments,
                                 args |-> <<Arity(target), argCount>>]
                 /\ frames' = <<>>
           /\ Len(frames') > Len(frames)
              => /\ target # NULL
                 /\ frames'[Len(frames')].closure = target
                 /\ Arity(target) = argCount]_vars

\* an INVOKE met a method whose arity is not its argument count
C3_Witness ==
  /\ last.op = "OP_INVOKE"
  /\ result = "INTERPRET_RUNTIME_ERROR"
  /\ errorMsg.format = ExpectedArguments

StackOverflow == [format |-> "Stack overflow.", args |-> <<>>]

\* the instruction `i' executed from this state enters a new frame unless it
\* raises: a CALL or INVOKE that reaches a function with the right number of
\* arguments, or an IMPORT
PushesFrame(i) ==
  IF i.op = "OP_IMPORT" THEN TRUE
  ELSE /\ i.op \in {"OP_CALL", "OP_INVOKE"}
       /\ Target(i.op, i.a, ArgCount(i)) # NULL
       /\ Arity(Target(i.op, i.a, ArgCount(i))) = ArgCount(i)

\* C4: the frame count never exceeds FRAMES_MAX: an instruction that pushes a
\* frame (CALL of a closure or bound method, INVOKE, IMPORT) executed with
\* FRAMES_MAX frames in use raises a runtime error and pushes nothing, the
\* error of a call being "Stack overflow.".
C4_FrameLimit ==
  [][/\ Len(frames') <= FRAMES_MAX
     /\ Running /\ steps' = steps + 1 /\ frameCount = FRAMES_MAX /\ PushesFrame(last')
          => /\ result' = "INTERPRET_RUNTIME_ERROR"
             /\ last'.op # "OP_IMPORT" => errorMsg' = StackOverflow]_vars

\* the struct-with-method program is the source interpret() ran last
RunsPoint == program # NULL /\ heap[program].code = PointCode

\* the closure GET_FIELD of this state finds under constant `index' among the
\* methods of the instance on top of the stack
MethodOf(receiver, index) ==
  tableGet(heap, heap[heap[AS_OBJ(receiver)].definition].methods, READ_STRING(index))

\* C8: a bound method is the pair of the instance GET_FIELD looked the method
\* up on and that method, and it never changes; a CALL of a bound method that
\* enters a frame has stored the receiver in the callee slot, so that slot 0
\* of the new frame is that instance, slots 1..argc are the arguments and the
\* frame runs the method from its first instruction; the struct-with-method
\* program raises no error and, when it ends, has printed the line 7.
C8_BoundMethodCall ==
  [][/\ \A k \in 1..Len(heap) :
          heap[k].type = "OBJ_BOUND_METHOD" => heap'[k] = heap[k]
     /\ Executes("OP_GET_FIELD") /\ Len(heap') > Len(heap)
          => /\ IS_STRUCT(peek(0))
             /\ MethodOf(peek(0), last'.a)[1]
             /\ heap'[Len(heap')] =
                  BoundMethodObj(peek(0), AS_OBJ(MethodOf(peek(0), last'.a)[2]))
             /\ stack'[stackTop - 1] = OBJ_VAL(Len(heap'))
     /\ Executes("OP_CALL") /\ IS_BOUND_METHOD(peek(last'.a)) /\ Len(frames') > Len(frames)
          => LET argCount == last'.a
                 bound == heap[AS_OBJ(peek(argCount))]
                 base == stackTop - argCount - 1
             IN  /\ frames'[Len(frames')] = newFrame(bound.method, base)
                 /\ stack'[base] = bound.receiver
                 /\ IS_STRUCT(stack'[base])
                 /\ \A i \in 1..argCount : stack'[base + i] = stack[base + i]
                 /\ stackTop' = base + argCount + 1
     /\ RunsPoint
          => /\ result' # "INTERPRET_RUNTIME_ERROR"
             /\ result' = "INTERPRET_OK" => output' = <<<<55>>>>]_vars

\* the struct-with-method program has run to its end and printed 7
C8_Witness == RunsPoint /\ result = "INTERPRET_OK" /\ output = <<<<55>>>>

\* C5: ARRAY n replaces the top n stack values v0..v_{n-1} (v0 deepest) by one
\* new array of count n whose element i is v_i, and leaves the stack below
\* them and every other object as they were.
C5_ArrayLiteral ==
  [][Executes("OP_ARRAY") =>
       LET n == last'.a
           base == stackTop - n
       IN  /\ result' = "running"
           /\ heap' = Append(heap, ArrayObj([i \in 1..n |-> stack[base + i - 1]]))
           /\ stackTop' = base + 1
           /\ stack'[base] = OBJ_VAL(Len(heap'))
           /\ \A j \in 0..(base - 1) : stack'[j] = stack[j]]_vars

\* an ARRAY 2 has just built an array of two different elements
C5_Witness ==
  /\ Running
  /\ last = Instr("OP_ARRAY", 2, 0, <<>>)
  /\ IS_ARRAY(peek(0))
  /\ Len(heap[AS_OBJ(peek(0))].elements) = 2
  /\ heap[AS_OBJ(peek(0))].elements[1] # heap[AS_OBJ(peek(0))].elements[2]

\* the array-bounds program is the source interpret() ran last
RunsArraysProgram == program # NULL /\ heap[program].code = ArraysProgramCode

OutOfBounds(index, count) ==
  [format |-> "Array index %lld out of bounds [0, %d).", args |-> <<index, count>>]

\* C6: INDEX_GET and INDEX_SET raise a runtime error and leave every object as
\* it was when the indexed value is no array ("Can only index arrays."), when
\* the index is no int ("Array index must be an integer.") or when it is
\* outside [0, count) ("Array index <i> out of bounds [0, <count>)."); else
\* INDEX_GET pushes the element and INDEX_SET stores the value in it.  The
\* array-bounds program prints 20 for a[1] and then stops with "Array index
\* 3 out of bounds [0, 3)."
C6_IndexChecked ==
  [][/\ Executes("OP_INDEX_GET") \/ Executes("OP_INDEX_SET") =>
          LET set == last'.op = "OP_INDEX_SET"
              indexVal == IF set THEN peek(1) ELSE peek(0)
              arrayVal == IF set THEN peek(2) ELSE peek(1)
              count == Len(heap[AS_OBJ(arrayVal)].elements)
              fails(format, args) ==
                /\ result' = "INTERPRET_RUNTIME_ERROR"
                /\ errorMsg' = [format |-> format, args |-> args]
                /\ heap' = heap
                /\ output' = output
          IN  IF ~IS_ARRAY(arrayVal) THEN fails("Can only index arrays.", <<>>)
              ELSE IF ~IS_INT(indexVal) THEN fails("Array index must be an integer.", <<>>)
              ELSE IF AS_INT(indexVal) < 0 \/ AS_INT(indexVal) >= count
                THEN /\ errorMsg' = OutOfBounds(AS_INT(indexVal), count)
                     /\ fails(errorMsg'.format, errorMsg'.args)
              ELSE /\ result' = "running"
                   /\ stackTop' = stackTop - (IF set THEN 2 ELSE 1)
                   /\ IF set
                        THEN /\ heap' = [heap EXCEPT ![AS_OBJ(arrayVal)].elements[
                                                       AS_INT(indexVal) + 1] = peek(0)]
                             /\ stack'[stackTop' - 1] = peek(0)
                        ELSE /\ heap' = heap
                             /\ stack'[stackTop' - 1] =
                                  heap[AS_OBJ(arrayVal)].elements[AS_INT(indexVal) + 1]
     /\ RunsArraysProgram =>
          /\ result' # "INTERPRET_OK"
          /\ Len(output') <= 1
          /\ output' # <<>> => output' = <<<<50, 48>>>>
          /\ result' = "INTERPRET_RUNTIME_ERROR"
               => output' = <<<<50, 48>>>> /\ errorMsg' = OutOfBounds(3, 3)]_vars

\* the array-bounds program has printed 20 and stopped at a[3]
C6_Witness ==
  /\ RunsArraysProgram
  /\ result = "INTERPRET_RUNTIME_ERROR"
  /\ last.op = "OP_INDEX_GET"
  /\ output = <<<<50, 48>>>>
  /\ errorMsg = OutOfBounds(3, 3)

IsString(h, k) == h[k].type = "OBJ_STRING"

\* the byte sequences the intern calls of the property are made on
InternInputs == UNION {[1..n -> {49, 97, 98}] : n \in 0..MaxStrLen}

\* C2: every string object is the one the intern table finds for its bytes,
\* so no two string objects have equal contents; and on any bytes copyString
\* and takeString return the same object, that of an earlier intern call on
\* those bytes when there was one, and a second call of either after the
\* first returns the first call's object and allocates nothing.
C2_InternedOnce ==
  /\ \A k \in 1..Len(heap) : IsString(heap, k) => Interned(heap, strings, heap[k].chars) = k
  /\ \A j, k \in 1..Len(heap) :
       IsString(heap, j) /\ IsString(heap, k) /\ heap[j].chars = heap[k].chars => j = k
  /\ \A chars \in InternInputs :
       \E copied \in {copyString(heap, strings, chars)} :
       \E taken \in {takeString(heap, strings, chars)} :
         /\ copied.obj = taken.obj
         /\ copied.heap[copied.obj].chars = chars
         /\ (\E k \in 1..Len(heap) : IsString(heap, k) /\ heap[k].chars = chars)
              => copied.obj <= Len(heap) /\ copied.heap = heap /\ taken.heap = heap
         /\ takeString(copied.heap, copied.strings, chars) = copied
         /\ copyString(taken.heap, taken.strings, chars) = taken

\* an ADD of two strings has returned the string the compiler interned
C2_Witness ==
  /\ Running
  /\ last.op = "OP_ADD"
  /\ IS_STRING(peek(0))
  /\ heap[AS_OBJ(peek(0))].chars = ABChars
  /\ AS_OBJ(peek(0)) < program

\* C9: ADD on two strings pops both and pushes a string whose bytes are the
\* first operand's followed by the second's; the pushed string is the one
\* string object with those bytes: the object that already had them when
\* there was one, else a new object the intern table now finds.
C9_AddStrings ==
  [][Executes("OP_ADD") /\ IS_STRING(peek(0)) /\ IS_STRING(peek(1)) =>
       LET chars == heap[AS_OBJ(peek(1))].chars \o heap[AS_OBJ(peek(0))].chars
           pushed == stack'[stackTop - 2]
       IN  /\ result' = "running"
           /\ stackTop' = stackTop - 1
           /\ IS_OBJ(pushed)
           /\ AS_OBJ(pushed) \in 1..Len(heap')
           /\ heap'[AS_OBJ(pushed)] = StringObj(chars, hashString(chars))
           /\ Interned(heap', strings', chars) = AS_OBJ(pushed)
           /\ \A k \in 1..Len(heap') :
                IsString(heap', k) /\ heap'[k].chars = chars => k = AS_OBJ(pushed)
           /\ \A k \in 1..Len(heap) :
                IsString(heap, k) /\ heap[k].chars = chars
                  => AS_OBJ(pushed) = k /\ heap' = heap /\ strings' = strings
           /\ \A j \in 0..(stackTop - 3) : stack'[j] = stack[j]]_vars

\* an ADD of "b" and "a" has made the new string "ba"
C9_Witness ==
  /\ Running
  /\ last.op = "OP_ADD"
  /\ IS_STRING(peek(0))
  /\ heap[AS_OBJ(peek(0))].chars = <<98, 97>>
  /\ AS_OBJ(peek(0)) > program

\* the mixed-equality program is the source interpret() ran last
RunsEquality == program # NULL /\ heap[program].code = EqualityCode

\* the type of a value: its Value type, or its object type
TypeOf(value) == IF IS_OBJ(value) THEN heap[AS_OBJ(value)].type ELSE value.t

\* an int and a float of the same numeric value (floats count halves)
SameNumber(a, b) ==
  \/ IS_INT(a) /\ IS_FLOAT(b) /\ 2 * AS_INT(a) = AS_FLOAT(b)
  \/ IS_FLOAT(a) /\ IS_INT(b) /\ AS_FLOAT(a) = 2 * AS_INT(b)

TrueText == <<116, 114, 117, 101>>
FalseText == <<102, 97, 108, 115, 101>>

RunsCounter == program # NULL /\ heap[program].code = CounterCode

\* the function whose local upvalue `k' captured has returned: the upvalue is
\* closed, or the slot it points at is above the live stack
Returned(h, top, k) == h[k].location = CLOSED \/ h[k].location >= top

\* C7: a variable captured by a closure outlives the function it was a local
\* of: once that function has returned, the variable's value is the one the
\* last SET_UPVALUE through its upvalue left, whatever else runs in between,
\* and the variable stays the closure's own.  The closure-capture program
\* raises no error and prints 1, 2 and 3.
C7_CapturedVariableSurvives ==
  [][/\ \A k \in 1..Len(heap) :
          IsUpvalue(heap, k) /\ Returned(heap, stackTop, k) /\ result' = "running"
            => /\ Returned(heap', stackTop', k)
               /\ ReadUpvalue(heap', stack', k) =
                    IF Executes("OP_SET_UPVALUE") /\ CurClosure.upvalues[last'.a + 1] = k
                      THEN peek(0)
                      ELSE ReadUpvalue(heap, stack, k)
     /\ RunsCounter =>
          /\ result' # "INTERPRET_RUNTIME_ERROR"
          /\ output' = SubSeq(<<<<49>>, <<50>>, <<51>>>>, 1, Len(output'))
          /\ result' = "INTERPRET_OK" => Len(output') = 3]_vars

\* the values on the value stack
Live == {stack[i] : i \in 0..(stackTop - 1)}

\* ints, floats and strings are the classes transitivity is claimed within
EqualityClass(value) ==
  IF IS_INT(value) THEN "int"
  ELSE IF IS_FLOAT(value) THEN "float"
  ELSE IF IS_STRING(value) THEN "string"
  ELSE "other"

\* C11: valuesEqual is reflexive and symmetric on all values, and transitive
\* on three ints, on three floats and on three interned strings.  Stated of
\* the values a run has on its stack.
C11_EqualityLaws ==
  \A a \in Live : \A b \in Live : \A c \in Live :
    /\ valuesEqual(a, a)
    /\ valuesEqual(a, b) = valuesEqual(b, a)
    /\ /\ EqualityClass(a) # "other"
       /\ EqualityClass(a) = EqualityClass(b)
       /\ EqualityClass(b) = EqualityClass(c)
       /\ valuesEqual(a, b)
       /\ valuesEqual(b, c)
       => valuesEqual(a, c)

\* a round-trip chunk is the source interpret() ran last
RunsRoundTrip == program # NULL /\ heap[program].code = RoundTripCode

\* the int a round-trip chunk pushes
RoundTripInt == AS_INT(heap[program].constants[1])

IsZero(value) == IS_NUMBER(value) /\ AS_NUMBER(value) = 0

\* C13: DIVIDE and MODULO with a divisor of zero raise a runtime error and
\* push nothing; DIVIDE of two ints with a non-zero divisor goes on with the
\* quotient truncated toward zero in place of the operands; MODULO of
\* operands that are not both ints raises a runtime error.
C13_DivideModulo ==
  [][/\ (Executes("OP_DIVIDE") \/ Executes("OP_MODULO")) /\ IsZero(peek(0))
          => result' = "INTERPRET_RUNTIME_ERROR" /\ stackTop' = 0
     /\ Executes("OP_DIVIDE") /\ IS_INT(peek(0)) /\ IS_INT(peek(1)) /\ ~IsZero(peek(0))
          => /\ result' = "running"
             /\ stackTop' = stackTop - 1
             /\ IS_INT(stack'[stackTop' - 1])
             /\ AS_INT(stack'[stackTop' - 1]) = TruncDiv(AS_INT(peek(1)), AS_INT(peek(0)))
     /\ Executes("OP_MODULO") /\ ~(IS_INT(peek(0)) /\ IS_INT(peek(1)))
          => result' = "INTERPRET_RUNTIME_ERROR"]_vars

\* the name is in the globals table
Defined(h, g, name) == tableGet(h, g, name)[1]

\* the strings of the heap
Names == {a \in 1..Len(heap) : heap[a].type = "OBJ_STRING"}

UndefinedVariable(name) ==
  [format |-> "Undefined variable '%s'.", args |-> <<heap[name].chars>>]

\* the REPL session of SpecGlobals is running, or has run
RunsSession ==
  program # NULL /\ heap[program].code \in {AssignCode, DeclareCode, PrintGlobalCode}

\* the results of the lines  x = 1  print(x)  x = 1  x := 2  x = 3  print(x)
SessionResults ==
  <<"INTERPRET_RUNTIME_ERROR", "INTERPRET_RUNTIME_ERROR", "INTERPRET_RUNTIME_ERROR",
    "INTERPRET_OK", "INTERPRET_OK", "INTERPRET_OK">>

\* C14: SET_GLOBAL of a name that is not in the globals table raises
\* "Undefined variable" and leaves the table without the name, every other
\* name as it was; GET_GLOBAL of a name not in the table raises the same
\* error; SET_GLOBAL of a defined name goes on, the name bound to the value
\* on top of the stack, which stays there.  In the session, the assignment
\* before the declaration fails, then the read, then the assignment again;
\* after the declaration the assignment succeeds and the read prints 3.
C14_SetGlobal ==
  [][/\ \A index \in ConstantIndexes :
          Executes("OP_SET_GLOBAL") /\ last'.a = index =>
            LET name == READ_STRING(index) IN
            /\ \A other \in Names \ {name} :
                  tableGet(heap', globals', other) = tableGet(heap, globals, other)
            /\ IF Defined(heap, globals, name)
                 THEN /\ result' = "running"
                      /\ tableGet(heap', globals', name) = <<TRUE, peek(0)>>
                      /\ stackTop' = stackTop /\ stack' = stack
                 ELSE /\ result' = "INTERPRET_RUNTIME_ERROR"
                      /\ errorMsg' = UndefinedVariable(name)
                      /\ ~Defined(heap', globals', name)
     /\ \A index \in ConstantIndexes :
          /\ Executes("OP_GET_GLOBAL") /\ last'.a = index
          /\ ~Defined(heap, globals, READ_STRING(index))
          => /\ result' = "INTERPRET_RUNTIME_ERROR"
             /\ errorMsg' = UndefinedVariable(READ_STRING(index))
     /\ RunsSession /\ result = "running" /\ result' # "running"
          => /\ result' = SessionResults[Len(SessionResults) - Len(sources)]
             /\ sources = <<>> => output' = <<printValue(heap, INT_VAL(3))>>]_vars

\* the third line of the session, the second  x = 1, has failed as the first
\* did, and x is still not in the table
C14_Witness ==
  /\ RunsSession
  /\ Len(sources) = 3
  /\ heap[program].code = AssignCode
  /\ last.op = "OP_SET_GLOBAL"
  /\ result = "INTERPRET_RUNTIME_ERROR"
  /\ errorMsg = UndefinedVariable(AS_OBJ(heap[program].constants[2]))
  /\ ~Defined(heap, globals, AS_OBJ(heap[program].constants[2]))


\* the for loops of the function that is running
RunningLoops ==
  IF Running /\ ~OpenChunk
    THEN {l \in compiling.loops : l.function = CurClosure.function}
    ELSE {}

\* C15: in a function compiled from source, the depth of the frame's stack
\* window at the first instruction of a for loop is the number of locals
\* declared before the loop, in every iteration, and so it is at the
\* instruction after the loop.  The condition is on top of that at the
\* JUMP_IF_FALSE, which leaves it there, and on either path the next
\* instruction is the POP that removes it: the one before the body, and
\* the one before the instruction after the loop.
C15_LoopDepth ==
  \A l \in RunningLoops :
    /\ CurFrame.ip \in {l.start, l.after} => Depth = l.locals
    /\ CurFrame.ip \in {l.exit, l.exit + 1, l.after - 1} => Depth = l.locals + 1
    /\ CurFrame.ip = l.exit + 2 => Depth = l.locals
    /\ CurFunction.code[l.exit].op = "OP_JUMP_IF_FALSE"
    /\ CurFunction.code[l.exit + 1].op = "OP_POP"
    /\ CurFunction.code[l.after - 1].op = "OP_POP"
    /\ CurFunction.code[l.after - 2].op = "OP_LOOP"

\* the outer loop of the nested source has run MaxIterations times, the
\* inner one as often in each, and the program is at the instruction after
\* the outer loop, the condition popped
C15_Witness ==
  /\ Running
  /\ last.op = "OP_POP"
  /\ Cardinality(RunningLoops) = 2
  /\ \E l \in RunningLoops :
       /\ CurFrame.ip = l.after
       /\ \A k \in RunningLoops : k.after <= l.after
       /\ Depth = l.locals
  /\ tableGet(heap, globals, copyString(heap, strings, IChars).obj)
       = <<TRUE, INT_VAL(MaxIterations)>>


\* the chunk of a function under compilation, or compiled
CodeOf(function) ==
  IF compiling.active /\ Cur(compiling).function = function
    THEN Cur(compiling).code ELSE heap[function].code

\* the bytes between the operand of a jump and its target
Span(j) ==
  LET code == CodeOf(j.function)
  IN  IF j.to > j.at THEN OffsetOf(code, j.to) - OffsetOf(code, j.at + 1)
      ELSE OffsetOf(code, j.at + 1) - OffsetOf(code, j.to)

Encoded(j) ==
  READ_SHORT(CodeOf(j.function)[j.at].a, CodeOf(j.function)[j.at].b) = Span(j)

\* the errors compile() has reported, and what it returned
Reported == compiling.errors
ErrorsReported == {Reported[k] : k \in 1..Len(Reported)}
CompileResult == IF sources # <<>> THEN Head(sources) ELSE program
HasReturned == ~compiling.active /\ compiling.texts = <<>>

ExitOfLargeLoop(j) ==
  \E l \in compiling.loops :
    /\ l.function = j.function
    /\ l.exit = j.at
    /\ "Loop body too large." \in ErrorsReported

Compiled(source) == HasReturned /\ compiling.source = source

\* compile() reported nothing and returned a function
Accepted == Reported = <<>> /\ ~compiling.hadError /\ CompileResult # NULL

\* the first error compile() reported is this one, and it returned NULL
Rejected(message) ==
  Reported # <<>> /\ Reported[1] = message /\ compiling.hadError /\ CompileResult = NULL

\* the functions compile() made, in the order of their declarations
FunctionsCompiled ==
  {a \in 1..Len(heap) : heap[a].type = "OBJ_FUNCTION"}
NthFunction(n) ==
  CHOOSE a \in FunctionsCompiled : Cardinality({b \in FunctionsCompiled : b <= a}) = n

Emitted(function, i) == \E k \in 1..Len(heap[function].code) : heap[function].code[k] = i

\* C17: a function with 256 locals, slot 0 counted, compiles, and its last
\* local is slot 255; one local more is "Too many local variables in
\* function.".  A chunk with 256 constants compiles, and one more is "Too
\* many constants in one chunk.".  A call with 255 arguments compiles, and
\* one more is "Can't have more than 255 arguments.".  A function with 256
\* upvalues compiles, and one more is "Too many closure variables in
\* function.".  While compiling no function has more than 256 locals or
\* upvalues.
C17_Limits ==
  /\ compiling.active =>
       \A level \in 1..Len(compiling.compilers) :
         /\ Len(compiling.compilers[level].locals) <= UINT8_COUNT
         /\ Len(compiling.compilers[level].upvalues) <= UINT8_COUNT
  /\ \A count \in Around(UINT8_COUNT - 1) :
       Compiled(LocalsSource(count)) =>
         IF count + 1 <= 256
           THEN Accepted /\ Emitted(NthFunction(1),
                                    Instr("OP_GET_LOCAL", count, 0, <<>>))
           ELSE Rejected("Too many local variables in function.")
  /\ \A count \in Around(UINT8_COUNT) :
       Compiled(ConstantsSource(count)) =>
         IF count <= 256
           THEN /\ Accepted
                /\ Len(heap[NthFunction(1)].constants) = count
                /\ Emitted(NthFunction(1), Instr("OP_CONSTANT", count - 1, 0, <<>>))
           ELSE Rejected("Too many constants in one chunk.")
  /\ \A count \in Around(UINT8_MAX) :
       Compiled(ArgumentsSource(count)) =>
         IF count <= 255
           THEN Accepted /\ Emitted(NthFunction(1), Instr("OP_CALL", count, 0, <<>>))
           ELSE Rejected("Can't have more than 255 arguments.")
  /\ \A count \in Around(UINT8_COUNT) :
       Compiled(UpvaluesSource(count)) =>
         IF count <= 256
           THEN /\ Accepted
                /\ heap[NthFunction(4)].upvalueCount = count
                /\ Emitted(NthFunction(4), Instr("OP_GET_UPVALUE", count - 1, 0, <<>>))
           ELSE Rejected("Too many closure variables in function.")

\* the source whose function h reads 256 variables of the functions around
\* it has compiled without an error: h has 256 upvalues
C17_Witness ==
  /\ Compiled(UpvaluesSource(UINT8_COUNT))
  /\ Accepted
  /\ sources # <<>>
  /\ heap[NthFunction(4)].upvalueCount = UINT8_COUNT


\* C18: a type declaration with up to 256 fields compiles without an error,
\* and one with more is a compile error.
C18_FieldLimit ==
  \A count \in Around(UINT8_COUNT) :
    Compiled(TypeSource(count)) =>
      /\ ~compiling.undefined
      /\ IF count <= 256 THEN Accepted ELSE compiling.hadError /\ CompileResult = NULL


\* the step is the return of compile(), and the step is interpret() going
\* on after it
CompileReturns == compiling.active /\ ~compiling'.active
InterpretGoesOn == ~compiling.active /\ sources # <<>> /\ sources' = <<>>

\* C19: compile() returns NULL if it has reported an error, and the function
\* if it has reported none.  interpret() then returns
\* INTERPRET_COMPILE_ERROR with the stack, the frames, the globals and the
\* output as they were, and no instruction executes before the next source
\* is interpreted.
C19_CompileError ==
  [][/\ CompileReturns =>
          IF compiling'.errors # <<>>
            THEN compiling'.hadError /\ sources' = <<NULL>>
            ELSE /\ sources' # <<NULL>>
                 /\ heap'[Head(sources')].type = "OBJ_FUNCTION"
     /\ InterpretGoesOn /\ compiling.errors # <<>> =>
          /\ result' = "INTERPRET_COMPILE_ERROR"
          /\ program' = NULL
          /\ UNCHANGED <<stack, stackTop, frames, openUpvalues, globals, output, steps>>
     /\ InterpretGoesOn /\ compiling.errors = <<>> => result' = "running" /\ program' # NULL
     /\ result = "INTERPRET_COMPILE_ERROR" /\ ~InterpretGoesOn =>
          /\ result' = result
          /\ UNCHANGED <<stack, stackTop, frames, openUpvalues, globals, output, steps>>]_vars

\* the first line has run and defined x; the second one had a compile error
\* and interpret() has returned
C19_Witness ==
  /\ result = "INTERPRET_COMPILE_ERROR"
  /\ last.op = "interpret"
  /\ program = NULL
  /\ compiling.errors # <<>>
  /\ compiling.texts = <<>>
  /\ steps > 0
  /\ stackTop = 0
  /\ Defined(heap, globals, copyString(heap, strings, XChars).obj)


\* C20: the step that raises a runtime error ends run() with
\* INTERPRET_RUNTIME_ERROR and leaves the value stack empty, no call frame
\* and no open upvalue, however many frames were active; after it no
\* instruction executes, the only step being interpret() of the next source.
C20_RuntimeError ==
  [][/\ result = "running" /\ result' = "INTERPRET_RUNTIME_ERROR" =>
          /\ steps' = steps + 1
          /\ stackTop' = 0
          /\ frames' = <<>>
          /\ openUpvalues' = <<>>
     /\ result = "INTERPRET_RUNTIME_ERROR" =>
          /\ stackTop = 0 /\ frames = <<>> /\ openUpvalues = <<>>
          /\ steps' = steps
          /\ last'.op = "interpret"]_vars

\* a call with FRAMES_MAX frames active has raised "Stack overflow." while
\* an upvalue was open, and nothing is left of the frames
C20_Witness ==
  /\ result = "INTERPRET_RUNTIME_ERROR"
  /\ errorMsg.format = "Stack overflow."
  /\ last.op = "OP_CALL"
  /\ \E k \in 1..Len(heap) : IsUpvalue(heap, k) /\ heap[k].location # CLOSED
  /\ stackTop = 0
  /\ frames = <<>>
  /\ openUpvalues = <<>>


\* The value an expression has by convention.  The level of a binary
\* operator, the loosest first:
Level(type) ==
  CASE type = "TOKEN_OR" -> 1
    [] type = "TOKEN_AND" -> 2
    [] type \in {"TOKEN_EQUAL_EQUAL", "TOKEN_BANG_EQUAL"} -> 3
    [] type \in {"TOKEN_LESS", "TOKEN_GREATER"} -> 4
    [] type \in {"TOKEN_PLUS", "TOKEN_MINUS"} -> 5
    [] type \in {"TOKEN_STAR", "TOKEN_SLASH"} -> 6

\* the parentheses open at token k
ParenDepth(e, k) ==
  Cardinality({j \in 1..(k - 1) : e[j].type = "TOKEN_LEFT_PAREN"})
    - Cardinality({j \in 1..(k - 1) : e[j].type = "TOKEN_RIGHT_PAREN"})

\* the binary operators of e outside its parentheses: an operator is binary
\* after an operand
BinaryAt(e) ==
  {k \in 2..Len(e) : /\ e[k].type \in BinaryOperators
                     /\ ParenDepth(e, k) = 0
                     /\ e[k - 1].type \in {"TOKEN_NUMBER", "TOKEN_RIGHT_PAREN"}}

IntResult(i) ==
  IF i >= -Pow2((IF NAN_BOXING THEN INT_BITS ELSE INT64_BITS) - 1)
     /\ i < Pow2((IF NAN_BOXING THEN INT_BITS ELSE INT64_BITS) - 1)
    THEN [t |-> "int", v |-> i] ELSE [t |-> "too large"]
BoolResult(b) == [t |-> "bool", v |-> b]
ErrorResult == [t |-> "error"]

\* left op right, an int that the build's Value does not hold being
\* "too large"
Applied(type, left, right) ==
  IF left.t \in {"error", "too large"} THEN left
  ELSE IF type = "TOKEN_AND" THEN (IF left = BoolResult(FALSE) THEN left ELSE right)
  ELSE IF type = "TOKEN_OR" THEN (IF left = BoolResult(FALSE) THEN right ELSE left)
  ELSE IF right.t \in {"error", "too large"} THEN right
  ELSE IF type = "TOKEN_EQUAL_EQUAL" THEN BoolResult(left = right)
  ELSE IF type = "TOKEN_BANG_EQUAL" THEN BoolResult(left # right)
  ELSE IF left.t # "int" \/ right.t # "int" THEN ErrorResult
  ELSE CASE type = "TOKEN_LESS"    -> BoolResult(left.v < right.v)
         [] type = "TOKEN_GREATER" -> BoolResult(left.v > right.v)
         [] type = "TOKEN_PLUS"    -> IntResult(left.v + right.v)
         [] type = "TOKEN_MINUS"   -> IntResult(left.v - right.v)
         [] type = "TOKEN_STAR"    -> IntResult(left.v * right.v)
         [] type = "TOKEN_SLASH"   ->
              IF right.v = 0 THEN ErrorResult ELSE IntResult(TruncDiv(left.v, right.v))

\* e is split at the last of its loosest binary operators; with none it is
\* a unary operator and its operand, a parenthesis or a number
RECURSIVE Conventional(_)
Conventional(e) ==
  IF BinaryAt(e) # {}
    THEN LET k == CHOOSE k \in BinaryAt(e) :
                    \A j \in BinaryAt(e) :
                      \/ Level(e[j].type) > Level(e[k].type)
                      \/ Level(e[j].type) = Level(e[k].type) /\ j <= k
         IN  Applied(e[k].type, Conventional(SubSeq(e, 1, k - 1)),
                     Conventional(SubSeq(e, k + 1, Len(e))))
  ELSE IF e[1].type = "TOKEN_MINUS"
    THEN LET operand == Conventional(Tail(e))
         IN  IF operand.t = "int" THEN IntResult(-operand.v)
             ELSE IF operand.t = "bool" THEN ErrorResult ELSE operand
  ELSE IF e[1].type = "TOKEN_BANG"
    THEN LET operand == Conventional(Tail(e))
         IN  IF operand.t \in {"error", "too large"} THEN operand
             ELSE BoolResult(operand = BoolResult(FALSE))
  ELSE IF e[1].type = "TOKEN_LEFT_PAREN" THEN Conventional(SubSeq(e, 2, Len(e) - 1))
  ELSE IntResult(e[1].value[1])

\* the lines print(e) writes for a value
LinesOf(value) ==
  CASE value.t = "int"  -> <<FormatInt(value.v)>>
    [] value.t = "bool" -> <<IF value.v THEN <<116, 114, 117, 101>>
                             ELSE <<102, 97, 108, 115, 101>>>>
    [] OTHER -> <<>>

\* C21: print(e) compiles without an error for an expression e of numbers,
\* parentheses, the unary operators - and ! and the binary operators or,
\* and, == !=, < >, + -, * /, and the compiled code prints the value that e
\* has when an operator of a later group of that list binds tighter and
\* operators of one group associate to the left, provided that the build's
\* Value holds every int of the evaluation; it ends in a runtime error and
\* prints nothing if that evaluation applies an operator to a value it has
\* no meaning for.  (10 + 5) * 3 - 2 prints 43.
C21_Precedence ==
  /\ result # "INTERPRET_COMPILE_ERROR"
  /\ result \in {"INTERPRET_OK", "INTERPRET_RUNTIME_ERROR"} =>
       \E value \in {Conventional(PrintedOf(compiling.source))} :
         /\ value.t = "error" => result = "INTERPRET_RUNTIME_ERROR" /\ output = <<>>
         /\ value.t \in {"int", "bool"} => result = "INTERPRET_OK" /\ output = LinesOf(value)

\* print((10 + 5) * 3 - 2) has printed 43
C21_Witness ==
  /\ result = "INTERPRET_OK"
  /\ PrintedOf(compiling.source) = ArithmeticScenario
  /\ output = <<<<52, 51>>>>


\* the source compiled last, as its tokens
TokensCompiled == IF compiling.source = <<>> THEN <<>> ELSE compiling.source[1].tokens

\* the places of a source where  f(  stands
NameParen(source) ==
  {k \in 2..Len(source) : source[k].type = "TOKEN_LEFT_PAREN"
                            /\ source[k - 1] = IdentifierToken(FChars)}

\* the number of items between the ( at k and the first ) after it
ItemsAt(source, k) ==
  IF source[k + 1].type = "TOKEN_RIGHT_PAREN" THEN 0
  ELSE 1 + Cardinality({j \in (k + 1)..Len(source) :
                          /\ source[j].type = "TOKEN_COMMA"
                          /\ \A i \in (k + 1)..j : source[i].type # "TOKEN_RIGHT_PAREN"})

\* the sources declare f first and call it last
ParametersIn(source) ==
  ItemsAt(source, CHOOSE k \in NameParen(source) : \A j \in NameParen(source) : k <= j)
ArgumentsIn(source) ==
  ItemsAt(source, CHOOSE k \in NameParen(source) : \A j \in NameParen(source) : k >= j)

\* the functions on the heap that compile() made for declarations
DeclaredFunctions ==
  {k \in 1..Len(heap) : heap[k].type = "OBJ_FUNCTION" /\ heap[k].name # NULL}

\* the instructions of all functions compiled that call
CallInstructions ==
  {<<k, at>> \in (1..Len(heap)) \X (1..10) :
     /\ heap[k].type = "OBJ_FUNCTION"
     /\ at <= Len(heap[k].code)
     /\ heap[k].code[at].op = "OP_CALL"}

\* C22: a statement  name(x T ...  with T a type keyword or an identifier
\* declares the function name, with the parameters written, and a
\* statement  name(x)  or  name(x * 1)  or  name(x, 1)  calls name with the
\* arguments written and pops the result: the sources compile without an
\* error, one function is declared, with as many parameters as are written,
\* the calls have as many arguments as are written and a POP behind them
\* when they are statements, and the program prints 2 once.
C22_CallOrDeclaration ==
  /\ result \notin {"INTERPRET_COMPILE_ERROR", "INTERPRET_RUNTIME_ERROR"}
  /\ HasReturned => compiling.errors = <<>>
  /\ result = "INTERPRET_OK" =>
       /\ output = <<<<50>>>>
       /\ \E f \in DeclaredFunctions :
            /\ DeclaredFunctions = {f}
            /\ heap[f].name = copyString(heap, strings, FChars).obj
            /\ heap[f].arity = ParametersIn(TokensCompiled)
       /\ \E site \in CallInstructions :
            /\ CallInstructions = {site}
            /\ heap[site[1]].code[site[2]].a = ArgumentsIn(TokensCompiled)
            /\ heap[site[1]].code[site[2] + 1].op \in {"OP_POP", "OP_PRINT"}

\* the same for the sources whose parameters are not typed byte or void
C22_OtherTypes ==
  (\E k \in 2..Len(TokensCompiled) : TokensCompiled[k].type \in {"TOKEN_BYTE", "TOKEN_VOID"}
                                     /\ TokensCompiled[k - 1].type = "TOKEN_IDENTIFIER")
    \/ C22_CallOrDeclaration


\* the instructions DEFINE_GLOBAL of the function compile() returned
GlobalsDefined ==
  {at \in 1..Len(heap[CompileResult].code) :
     heap[CompileResult].code[at].op = "OP_DEFINE_GLOBAL"}

\* C23: each of  x := e,  x : T = e,  x : T : e  and  x : e  compiles
\* without an error.  At top level the code is that of e and a
\* DEFINE_GLOBAL of x; in a block it is that of e alone, whose value is the
\* new local, slot 1 of the script, and no global is defined.  print(x)
\* after it prints the value of e.
C23_DeclarationForms ==
  /\ result \notin {"INTERPRET_COMPILE_ERROR", "INTERPRET_RUNTIME_ERROR"}
  /\ HasReturned =>
       /\ compiling.errors = <<>>
       /\ CompileResult # NULL =>
            \E code \in {heap[CompileResult].code} :
              IF TokensCompiled[1] = LeftBrace
                THEN /\ GlobalsDefined = {}
                     /\ \E at \in 1..Len(code) :
                          /\ code[at].op = "OP_GET_LOCAL_1"
                          /\ code[at + 1].op = "OP_PRINT"
                          /\ code[at + 2].op = "OP_POP"
                ELSE \E at \in 1..Len(code) :
                       /\ GlobalsDefined = {at}
                       /\ heap[AS_OBJ(heap[CompileResult].constants[code[at].a + 1])].chars
                            = XChars
                       /\ code[at - 1].op \in {"OP_CONSTANT", "OP_ADD"}
                       /\ code[at + 1].op = "OP_GET_GLOBAL"
  /\ result = "INTERPRET_OK" => output = <<<<50>>>>

\* the same without  x : e  and without the types byte and void
C23_OtherForms ==
  \/ TokensCompiled = <<>>
  \/ \E k \in 1..3 : /\ TokensCompiled[k] = Colon
                     /\ TokensCompiled[k + 1].type
                          \in {"TOKEN_NUMBER", "TOKEN_BYTE", "TOKEN_VOID"}
  \/ C23_DeclarationForms

\* x : t : 1 + 1  print(x)  in a block has printed 2
C23_Witness ==
  /\ result = "INTERPRET_OK"
  /\ TokensCompiled = <<LeftBrace>>
                        \o Declares(<<Colon, IdentifierToken(TChars), Colon>>,
                                    <<NumberToken(1), Token("TOKEN_PLUS"), NumberToken(1)>>)
                        \o <<RightBrace>>
  /\ output = <<<<50>>>>


\* the token scanToken has made of the source
Scanned ==
  IF compiling.texts # <<>> /\ Head(compiling.texts) # <<>>
     /\ Head(compiling.texts)[1].kind = "tokens"
    THEN {Head(compiling.texts)[1].tokens[1]}
    ELSE {}

\* C24: the token of a reserved word is the token of that word, and the
\* token of every other lexeme of letters, digits and _ that starts with a
\* letter is TOKEN_IDENTIFIER, whatever follows the lexeme.
C24_ReservedWords ==
  \A token \in Scanned :
    IF \E w \in ReservedWords : w.chars = token.value
      THEN \E w \in ReservedWords : w.chars = token.value /\ w.type = token.type
      ELSE token.type = "TOKEN_IDENTIFIER"

\* the same for the lexemes other than self, import and export
C24_OtherWords ==
  \A token \in Scanned :
    \/ \E w \in ReservedWords : /\ w.chars = token.value
                                /\ w.type \in {"TOKEN_SELF", "TOKEN_IMPORT", "TOKEN_EXPORT"}
    \/ C24_ReservedWords


\* the NaN-boxed Value the constructor of a tagged Value makes of its payload
Boxed(value) ==
  CASE value.t = "nil"   -> nanbox_NIL_VAL
    [] value.t = "bool"  -> nanbox_BOOL_VAL(value.v = 1)
    [] value.t = "int"   -> nanbox_INT_VAL(value.v)
    [] value.t = "float" -> nanbox_float(value.v)
    [] value.t = "ptr"   -> nanbox_PTR_VAL(value.v)
    [] value.t = "obj"   -> nanbox_OBJ_VAL(value.v)

\* the Values on the stack, and three pointers
ValuesBuilt ==
  {stack[k] : k \in 0..(stackTop - 1)}
    \cup {PTR_VAL(p) : p \in {0, 1, Pow2(INT_BITS) - 1}}

TypeTests(value) ==
  <<IS_NIL(value), IS_BOOL(value), IS_INT(value), IS_FLOAT(value), IS_PTR(value),
    IS_OBJ(value)>>
nanbox_TypeTests(value) ==
  <<nanbox_IS_NIL(value), nanbox_IS_BOOL(value), nanbox_IS_INT(value),
    nanbox_IS_FLOAT(value), nanbox_IS_PTR(value), nanbox_IS_OBJ(value)>>

\* the payload extracted by the macro of the Value's type
nanbox_Payload(value) ==
  CASE nanbox_IS_NIL(value)   -> 0
    [] nanbox_IS_BOOL(value)  -> IF nanbox_AS_BOOL(value) THEN 1 ELSE 0
    [] nanbox_IS_INT(value)   -> nanbox_AS_INT(value)
    [] nanbox_IS_FLOAT(value) -> nanbox_as_float(value)
    [] nanbox_IS_PTR(value)   -> nanbox_AS_PTR(value)
    [] nanbox_IS_OBJ(value)   -> nanbox_AS_OBJ(value)

\* the two encodings of the Value give the same results
SameResults(value, boxed) ==
  /\ nanbox_TypeTests(boxed) = TypeTests(value)
  /\ Cardinality({k \in 1..6 : nanbox_TypeTests(boxed)[k]}) = 1
  /\ nanbox_Payload(boxed) = value.v
  /\ nanbox_IS_NUMBER(boxed) = IS_NUMBER(value)
  /\ IS_NUMBER(value) => nanbox_as_number(boxed) = AS_NUMBER(value)
  /\ nanbox_isFalsey(boxed) = isFalsey(value)

\* the two encodings of the Values give the same results, each and together
EquivalentOn(values) ==
  /\ \A a \in values : SameResults(a, Boxed(a))
  /\ \A a, b \in values : nanbox_valuesEqual(Boxed(a), Boxed(b)) = valuesEqual(a, b)

\* C25: a Value built by a constructor from a payload gives the same type
\* tests, of which exactly one holds, the same payload, the same isFalsey and
\* the same valuesEqual with any other such Value in the NaN-boxed and in
\* the tagged encoding, whatever the payload: nil, a bool, any int of
\* int64_t, a float, a pointer, an object.  (The Values of a state of the
\* tagged build are the constructors and payloads; in a state of the
\* NaN-boxed build the Values are compared with their bits.)
C25_Equivalent == EquivalentOn(ValuesBuilt)

\* the same for the ints that are their own low 48 bits, sign-extended
C25_InPayload ==
  EquivalentOn({value \in ValuesBuilt :
                  IS_INT(value) => AS_INT(value) = nanbox_as_int(AS_INT(value), INT_BITS)})

\* EQUAL has compared the least int of the payload with a float
C25_Witness ==
  /\ last.op = "OP_EQUAL"
  /\ stackTop = 3
  /\ stack[1] = INT_VAL(-Pow2(INT_BITS - 1))
  /\ stack[2] = BOOL_VAL(FALSE)


\* the instruction is ADD, SUBTRACT or MULTIPLY
ExecutesArithmetic ==
  Executes("OP_ADD") \/ Executes("OP_SUBTRACT") \/ Executes("OP_MULTIPLY")

\* the sum, difference or product of the two ints, as the integers have it
Mathematical(op, a, b) ==
  CASE op = "OP_ADD"      -> a + b
    [] op = "OP_SUBTRACT" -> a - b
    [] op = "OP_MULTIPLY" -> a * b

\* the instruction has replaced its `n' operands by one Value
Pushed(n) == result' = "running" /\ stackTop' = stackTop - n + 1

\* ADD, SUBTRACT and MULTIPLY of ints whose results satisfy `fits', of
\* numbers and of other operands, and NEGATE of the ints in `negated'
ArithmeticOn(fits, negated) ==
  /\ (/\ ExecutesArithmetic
      /\ IS_INT(peek(0)) /\ IS_INT(peek(1))
      /\ Mathematical(last'.op, AS_INT(peek(1)), AS_INT(peek(0))) \in fits)
       => /\ Pushed(2)
          /\ IS_INT(stack'[stackTop' - 1])
          /\ AS_INT(stack'[stackTop' - 1])
               = Mathematical(last'.op, AS_INT(peek(1)), AS_INT(peek(0)))
  /\ (/\ ExecutesArithmetic
      /\ IS_NUMBER(peek(0)) /\ IS_NUMBER(peek(1))
      /\ ~(IS_INT(peek(0)) /\ IS_INT(peek(1))))
       => Pushed(2) /\ IS_FLOAT(stack'[stackTop' - 1])
  /\ (/\ ExecutesArithmetic
      /\ ~(IS_NUMBER(peek(0)) /\ IS_NUMBER(peek(1)))
      /\ ~(Executes("OP_ADD") /\ (IS_STRING(peek(0)) \/ IS_STRING(peek(1)))))
       => result' = "INTERPRET_RUNTIME_ERROR"
  /\ Executes("OP_NEGATE") /\ IS_INT(peek(0)) /\ AS_INT(peek(0)) \in negated
       => Pushed(1) /\ IS_INT(stack'[stackTop' - 1])

\* the ints of int64_t, and those of the NaN-boxed payload
Int64s == -Pow2(INT64_BITS - 1)..(Pow2(INT64_BITS - 1) - 1)
PayloadInts == -Pow2(INT_BITS - 1)..(Pow2(INT_BITS - 1) - 1)

\* C26: ADD, SUBTRACT and MULTIPLY of two ints push the int that is the
\* mathematical result whenever that result is an int64_t; of an int and a
\* float, or of two floats, they push a float; of other operands, but for
\* ADD with a string among them, they raise a runtime error; NEGATE of an
\* int pushes an int.
C26_Arithmetic == [][ArithmeticOn(Int64s, Int64s)]_vars

\* the same for the results the NaN-boxed payload holds where Values are
\* NaN-boxed, and for NEGATE of the ints above the least int64_t
C26_InPayload ==
  [][ArithmeticOn(IF NAN_BOXING THEN PayloadInts ELSE Int64s,
                  Int64s \ {-Pow2(INT64_BITS - 1)})]_vars

\* SUBTRACT has taken 1 from the greatest int of the payload
C26_Witness ==
  /\ last.op = "OP_SUBTRACT"
  /\ stackTop = 2
  /\ stack[1] = INT_VAL(Pow2(INT_BITS - 1) - 2)


\* the upvalues of slots that have not been closed
OpenUpvalues(h) == {k \in 1..Len(h) : IsUpvalue(h, k) /\ h[k].location # CLOSED}

\* vm.openUpvalues holds open upvalues, strictly descending by the slot they
\* point at
SortedOpenList(h, open) ==
  /\ \A k \in 1..Len(open) : open[k] \in OpenUpvalues(h)
  /\ \A j, k \in 1..Len(open) : j < k => h[open[j]].location > h[open[k]].location

\* the closures of the heap
Closures(h) == {k \in 1..Len(h) : h[k].type = "OBJ_CLOSURE"}

\* C27: after every instruction, CLOSURE, CLOSE_UPVALUE and RETURN among
\* them, the open-upvalue list is strictly descending by the stack slot its
\* upvalues point at, so no two of them point at the same slot; a CLOSURE
\* that captures a local whose slot has an open upvalue stores that upvalue
\* in the new closure and makes no other for the slot.
C27_OpenListSorted ==
  [][/\ SortedOpenList(heap', openUpvalues')
     /\ Executes("OP_CLOSURE") /\ result' = "running" =>
          \A i \in 1..Len(last'.uv) : \A j \in 1..Len(openUpvalues) :
            /\ last'.uv[i].isLocal # 0
            /\ heap[openUpvalues[j]].location = CurFrame.slots + last'.uv[i].index
            => /\ heap'[Len(heap) + 1].upvalues[i] = openUpvalues[j]
               /\ \A k \in (Len(heap) + 1)..Len(heap') :
                    IsUpvalue(heap', k)
                      => heap'[k].location # heap[openUpvalues[j]].location]_vars

\* two closures share the one open upvalue of a local
C27_Witness ==
  \E c1, c2 \in Closures(heap) :
    /\ c1 # c2
    /\ heap[c1].upvalues # <<>> /\ heap[c2].upvalues # <<>>
    /\ heap[c1].upvalues[1] = heap[c2].upvalues[1]
    /\ openUpvalues = <<heap[c1].upvalues[1]>>
    /\ last.op = "OP_CLOSURE"


\* every upvalue of the open list points at a slot below vm.stackTop
OpenInLiveRegion ==
  \A k \in 1..Len(openUpvalues) :
    /\ heap[openUpvalues[k]].location # CLOSED
    /\ heap[openUpvalues[k]].location < stackTop

\* C28: while a compiled program runs, after every instruction every upvalue
\* of the open list points at a stack slot below stackTop: the upvalue of a
\* captured local is closed before the local's slot is popped, at the end of
\* its block and at the return of its frame.
C28_OpenBelowStackTop == result = "running" => OpenInLiveRegion

\* the same in the build that dispatches by computed goto
C28_ComputedGoto == result = "running" /\ COMPUTED_GOTO => OpenInLiveRegion

\* the closure that y() returned has read its closed upvalue
C28_Witness ==
  /\ COMPUTED_GOTO
  /\ TokensCompiled = CapturedInFunction(2)
  /\ result = "INTERPRET_OK"
  /\ output = <<<<50>>>>
  /\ openUpvalues = <<>>


\* the functions of the heap that have code
CompiledFunctions(h) == {f \in 1..Len(h) : h[f].type = "OBJ_FUNCTION" /\ h[f].code # <<>>}

\* the function a CLOSURE instruction of function f names
ClosureFunction(h, f, i) == h[AS_OBJ(h[f].constants[i.a + 1])]

\* every CLOSURE of the compiled code has as many operand pairs as the
\* function it names has upvalues
PairsMatchCount(h) ==
  \A f \in CompiledFunctions(h) : \A k \in 1..Len(h[f].code) :
    h[f].code[k].op = "OP_CLOSURE"
      => Len(h[f].code[k].uv) = ClosureFunction(h, f, h[f].code[k]).upvalueCount

\* C29: in the code the compiler emits every CLOSURE is followed by exactly
\* upvalueCount (is_local, index) pairs of the function it names; the
\* handler of CLOSURE makes a closure of that function whose upvalue array
\* has that length, reads exactly the bytes of the instruction, so that ip is
\* at the next opcode, and leaves an upvalue in every slot of the array.
C29_ClosureOperands ==
  [][/\ PairsMatchCount(heap')
     /\ Executes("OP_CLOSURE") =>
          \E function \in {AS_OBJ(READ_CONSTANT(last'.a))} :
          \E closure \in {heap'[Len(heap) + 1]} :
            /\ result' = "running"
            /\ closure.type = "OBJ_CLOSURE"
            /\ closure.function = function
            /\ Len(closure.upvalues) = heap[function].upvalueCount
            /\ 2 + (2 * heap[function].upvalueCount) = 1 + OperandBytes(last')
            /\ frames'[Len(frames')].ip = CurFrame.ip + 1
            /\ \A i \in 1..Len(closure.upvalues) :
                 /\ closure.upvalues[i] \in 1..Len(heap')
                 /\ IsUpvalue(heap', closure.upvalues[i])]_vars

\* the closure of g has been made with the upvalue of its enclosing closure
C29_Witness ==
  /\ last.op = "OP_CLOSURE"
  /\ last.uv = <<[isLocal |-> 0, index |-> 0]>>
  /\ heap[Len(heap)].type = "OBJ_CLOSURE"
  /\ heap[Len(heap)].upvalues = CurClosure.upvalues
  /\ Len(CurClosure.upvalues) = 1


\* the positions of `name' among the declared fields of the instance
DeclaredAt(instance, name) ==
  {i \in 1..heap[instance.definition].fieldCount :
     heap[instance.definition].fieldNames[i] = name}

\* C30: GET_FIELD on a struct instance with the name of a declared field
\* pushes that field's value in place of the instance and allocates
\* nothing, also when a method has the same name; with a name that is only
\* a method's it pushes a new BoundMethod of the receiver and that method;
\* SET_FIELD with a name that is not a declared field raises the runtime
\* error "Undefined field" and changes no object, also when a method has
\* that name.
C30_FieldsAndMethods ==
  [][/\ Executes("OP_GET_FIELD") /\ IS_STRUCT(peek(0)) =>
          \E instance \in {heap[AS_OBJ(peek(0))]} :
          \E declared \in {DeclaredAt(instance, READ_STRING(last'.a))} :
            /\ declared # {} =>
                 /\ result' = "running"
                 /\ heap' = heap
                 /\ stackTop' = stackTop
                 /\ \E i \in declared :
                      /\ \A j \in declared : i <= j
                      /\ stack'[stackTop - 1] = instance.fields[i]
            /\ declared = {} /\ MethodOf(peek(0), last'.a)[1] =>
                 /\ result' = "running"
                 /\ heap' = Append(heap, BoundMethodObj(peek(0),
                                                        AS_OBJ(MethodOf(peek(0), last'.a)[2])))
                 /\ stackTop' = stackTop
                 /\ stack'[stackTop - 1] = OBJ_VAL(Len(heap'))
     /\ Executes("OP_SET_FIELD") /\ IS_STRUCT(peek(1)) =>
          (DeclaredAt(heap[AS_OBJ(peek(1))], READ_STRING(last'.a)) = {} =>
             /\ result' = "INTERPRET_RUNTIME_ERROR"
             /\ errorMsg' = [format |-> "Undefined field '%s'.",
                             args |-> <<heap[READ_STRING(last'.a)].chars>>]
             /\ heap' = heap)]_vars

\* GET_FIELD has pushed the field of an instance whose struct has a method
\* of the field's name
C30_Witness ==
  /\ last.op = "OP_GET_FIELD"
  /\ result = "running"
  /\ peek(0) = INT_VAL(1)
  /\ \E d \in 1..Len(heap) :
       /\ heap[d].type = "OBJ_STRUCT_DEF"
       /\ heap[d].fieldCount = 1
       /\ tableGet(heap, heap[d].methods, heap[d].fieldNames[1])[1]

\* SET_FIELD with the name of a method has raised the error
C30_SetWitness ==
  /\ last.op = "OP_SET_FIELD"
  /\ errorMsg = [format |-> "Undefined field '%s'.", args |-> <<MethodName>>]
  /\ \E d \in 1..Len(heap) :
       /\ heap[d].type = "OBJ_STRUCT_DEF"
       /\ tableGet(heap, heap[d].methods, Interned(heap, strings, MethodName))[1]


\* this step raises the runtime error `format' with `args' and resets the stack
Raises(format, args) ==
  /\ result' = "INTERPRET_RUNTIME_ERROR"
  /\ errorMsg' = [format |-> format, args |-> args]
  /\ frames' = <<>>
  /\ stackTop' = 0
  /\ heap' = heap

\* this step calls `closure' with the top argCount values as arguments and
\* `callee' in the slot below them: it enters a frame whose slot 0 is
\* `callee' and whose slots 1..argCount are the arguments, or it raises the
\* error of an arity mismatch or of the frame limit
Called(callee, closure, argCount) ==
  LET base == stackTop - argCount - 1 IN
  IF argCount # Arity(closure)
    THEN Raises(ExpectedArguments, <<Arity(closure), argCount>>)
  ELSE IF frameCount = FRAMES_MAX THEN Raises("Stack overflow.", <<>>)
  ELSE /\ result' = "running"
       /\ frames' = Append(Fetched, newFrame(closure, base))
       /\ stackTop' = stackTop
       /\ stack'[base] = callee
       /\ \A j \in 0..(stackTop - 1) : j # base => stack'[j] = stack[j]
       /\ UNCHANGED <<heap, globals, openUpvalues, output>>

\* what GET_FIELD with constant `index' finds for `receiver': the value of
\* a declared field, or the method to bind to the receiver, or nothing
FieldOrMethod(receiver, index) ==
  LET instance == heap[AS_OBJ(receiver)]
      declared == DeclaredAt(instance, READ_STRING(index))
  IN  IF declared # {}
        THEN [kind |-> "field", method |-> NULL,
              value |-> instance.fields[CHOOSE i \in declared : \A j \in declared : i <= j]]
      ELSE IF MethodOf(receiver, index)[1]
        THEN [kind |-> "method", method |-> AS_OBJ(MethodOf(receiver, index)[2]),
              value |-> receiver]
      ELSE [kind |-> "none", method |-> NULL, value |-> receiver]

\* this step is what CALL argCount does when the callee slot below the
\* arguments holds the value GET_FIELD `index' has for `receiver'
CalledAfterGetField(receiver, index, argCount) ==
  LET found == FieldOrMethod(receiver, index)
      callee == found.value
  IN  IF found.kind = "method" THEN Called(receiver, found.method, argCount)
      ELSE IF IS_CLOSURE(callee) THEN Called(callee, AS_OBJ(callee), argCount)
      ELSE IF IS_BOUND_METHOD(callee)
        THEN Called(heap[AS_OBJ(callee)].receiver, heap[AS_OBJ(callee)].method, argCount)
      ELSE IF IS_STRUCT_DEF(callee) \/ IS_NATIVE(callee) THEN TRUE
      ELSE Raises("Can only call functions.", <<>>)

\* the unfused sequence, step by step: GET_FIELD replaces the receiver by
\* the value FieldOrMethod names, and CALL of a bound method, of a closure
\* and of a value that cannot be called does what Called says
UnfusedSteps ==
  /\ Executes("OP_GET_FIELD") /\ IS_STRUCT(peek(0)) =>
       \E found \in {FieldOrMethod(peek(0), last'.a)} :
         found.kind # "none" =>
           /\ result' = "running"
           /\ stackTop' = stackTop
           /\ frames' = Fetched
           /\ IF found.kind = "method"
                THEN /\ stack'[stackTop - 1] = OBJ_VAL(Len(heap'))
                     /\ heap'[Len(heap')] = BoundMethodObj(peek(0), found.method)
                ELSE stack'[stackTop - 1] = found.value
  /\ Executes("OP_CALL") =>
       \E callee \in {peek(last'.a)} :
         IF IS_BOUND_METHOD(callee)
           THEN Called(heap[AS_OBJ(callee)].receiver, heap[AS_OBJ(callee)].method, last'.a)
         ELSE IF IS_CLOSURE(callee) THEN Called(callee, AS_OBJ(callee), last'.a)
         ELSE IF IS_STRUCT_DEF(callee) \/ IS_NATIVE(callee) THEN TRUE
         ELSE Raises("Can only call functions.", <<>>)

\* C31: INVOKE name argc on a struct instance one of whose methods has the
\* name leaves the state that GET_FIELD name followed by CALL argc with the
\* same arguments leaves: the frame of the method entered with the receiver
\* in slot 0 and the arguments in slots 1..argc, or the same runtime error;
\* only the BoundMethod is not allocated.
C31_InvokeIsGetFieldCall ==
  [][/\ UnfusedSteps
     /\ Executes("OP_INVOKE") /\ IS_STRUCT(peek(last'.b)) /\ MethodOf(peek(last'.b), last'.a)[1]
          => CalledAfterGetField(peek(last'.b), last'.a, last'.b)]_vars

\* the same for a name that is a method of the instance and none of its
\* declared fields
C31_MethodsOnly ==
  [][/\ UnfusedSteps
     /\ Executes("OP_INVOKE") /\ IS_STRUCT(peek(last'.b)) /\ MethodOf(peek(last'.b), last'.a)[1]
          => \/ DeclaredAt(heap[AS_OBJ(peek(last'.b))], READ_STRING(last'.a)) # {}
             \/ CalledAfterGetField(peek(last'.b), last'.a, last'.b)]_vars

\* INVOKE has entered a method of its receiver
C31_Witness ==
  /\ last.op = "OP_INVOKE"
  /\ result = "running"
  /\ Len(frames) = 2
  /\ IS_STRUCT(stack[frames[2].slots])

\* INVOKE has met the frame limit
C31_OverflowWitness ==
  /\ last.op = "OP_INVOKE"
  /\ errorMsg = StackOverflow


\* C32: CALL argc on a StructDef of argc fields replaces the callee and the
\* arguments by one new instance of the definition whose i-th field, in
\* declaration order, holds the i-th argument (the first argument is the
\* deepest); with any other argc it raises the runtime error "Expected
\* <fieldCount> arguments but got <argc>." and creates no instance.
C32_Construct ==
  [][Executes("OP_CALL") /\ IS_STRUCT_DEF(peek(last'.a)) =>
       LET argCount == last'.a
           base == stackTop - argCount - 1
           def == AS_OBJ(stack[base])
       IN  IF argCount = heap[def].fieldCount
             THEN /\ result' = "running"
                  /\ heap' = Append(heap, StructObj(def, [i \in 1..argCount |-> stack[base + i]]))
                  /\ stackTop' = base + 1
                  /\ stack'[base] = OBJ_VAL(Len(heap'))
                  /\ \A j \in 0..(base - 1) : stack'[j] = stack[j]
                  /\ frames' = Fetched
             ELSE /\ result' = "INTERPRET_RUNTIME_ERROR"
                  /\ errorMsg' = [format |-> ExpectedArguments,
                                  args |-> <<heap[def].fieldCount, argCount>>]
                  /\ heap' = heap]_vars

\* Point(3, 4) has made the instance whose fields are 3 and 4
C32_Witness ==
  /\ last.op = "OP_CALL"
  /\ last.a = 2
  /\ result = "running"
  /\ IS_STRUCT(peek(0))
  /\ heap[AS_OBJ(peek(0))].fields = <<INT_VAL(3), INT_VAL(4)>>

\* a definition of one field has been called with no argument
C32_ErrorWitness ==
  /\ last.op = "OP_CALL"
  /\ last.a = 0
  /\ IS_STRUCT_DEF(stack[1])
  /\ errorMsg = [format |-> ExpectedArguments, args |-> <<1, 0>>]


\* the places of the members of this kind in a type body
MembersOf(kinds, kind) == {k \in 1..Len(kinds) : kinds[k] = kind}

\* the k-th smallest element of a set of numbers
Nth(set, k) == CHOOSE n \in set : Cardinality({m \in set : m <= n}) = k

\* the places of the instructions `op' in the code of the compiled script
At(op) == {at \in 1..Len(heap[CompileResult].code) : heap[CompileResult].code[at].op = op}

\* the string constant an instruction of the compiled script names
NamedBy(i) == heap[AS_OBJ(heap[CompileResult].constants[i.a + 1])].chars

\* the code of the declaration with this body is one STRUCT_DEF of as many
\* fields as the body has, then one STRUCT_FIELD for each of them in the
\* order of the body, and every METHOD after them
DeclarationCode(kinds) ==
  LET code == heap[CompileResult].code
      fields == MembersOf(kinds, "field")
      count == Cardinality(fields)
  IN  /\ At("OP_STRUCT_DEF") = {1}
      /\ code[1].a = count
      /\ At("OP_STRUCT_FIELD") = 2..(count + 1)
      /\ \A k \in 1..count : NamedBy(code[k + 1]) = FieldName(Nth(fields, k))
      /\ Cardinality(At("OP_METHOD")) = Cardinality(MembersOf(kinds, "method"))
      /\ \A at \in At("OP_METHOD") : at > count + 1

\* DEFINE_GLOBAL has bound the type name to the one value the declaration
\* left, a StructDef with the fields and the methods of the body
DeclarationRun(kinds) ==
  last.op = "OP_DEFINE_GLOBAL" /\ result = "running" =>
    LET bound == tableGet(heap, globals, Interned(heap, strings, TChars))
        fields == MembersOf(kinds, "field")
    IN  /\ stackTop = 1
        /\ bound[1]
        /\ IS_STRUCT_DEF(bound[2])
        /\ heap[AS_OBJ(bound[2])].fieldCount = Cardinality(fields)
        /\ \A k \in 1..Cardinality(fields) :
             heap[heap[AS_OBJ(bound[2])].fieldNames[k]].chars = FieldName(Nth(fields, k))
        /\ \A k \in MembersOf(kinds, "method") :
             tableGet(heap, heap[AS_OBJ(bound[2])].methods,
                      Interned(heap, strings, MethodChars(k)))[1]

TypeDeclarations(bodies) ==
  \A kinds \in bodies :
    Compiled(TypeBody(kinds)) /\ CompileResult # NULL =>
      DeclarationCode(kinds) /\ DeclarationRun(kinds)

\* C33: for every type declaration, however its fields and methods are
\* interleaved, the compiler emits exactly one STRUCT_DEF whose field count
\* is the number of declared fields, followed by one STRUCT_FIELD per field
\* in declaration order, and every METHOD after them; executing it leaves
\* exactly one value, the StructDef, which is bound to the type name.
C33_TypeDeclaration == TypeDeclarations(MemberKinds)

\* the bodies none of whose fields comes after a method
FieldsFirst ==
  {kinds \in MemberKinds :
     \A f \in MembersOf(kinds, "field") : \A m \in MembersOf(kinds, "method") : f < m}

\* the same for the declarations whose fields all come before the methods
C33_FieldsFirst == TypeDeclarations(FieldsFirst)

\* the declaration of two fields and a method has run
C33_Witness ==
  /\ Compiled(TypeBody(<<"field", "field", "method">>))
  /\ last.op = "OP_DEFINE_GLOBAL"
  /\ result = "running"
  /\ stackTop = 1


(***************************************************************************)
(* Dispatch: the OpCode enum of chunk.h in its order, the labels of        *)
(* dispatch_table of vm.c in its order, and for each opcode of the enum    *)
(* the label under which run() has its handler (do_UNUSED for an opcode    *)
(* that has none).                                                         *)
(***************************************************************************)
OpCode ==
  <<"OP_CONSTANT", "OP_NIL", "OP_TRUE", "OP_FALSE", "OP_POP", "OP_DUP",
    "OP_GET_LOCAL", "OP_SET_LOCAL", "OP_GET_GLOBAL", "OP_DEFINE_GLOBAL",
    "OP_SET_GLOBAL", "OP_GET_UPVALUE", "OP_SET_UPVALUE", "OP_GET_PROPERTY",
    "OP_SET_PROPERTY", "OP_EQUAL", "OP_NOT_EQUAL", "OP_GREATER",
    "OP_GREATER_EQUAL", "OP_LESS", "OP_LESS_EQUAL", "OP_ADD_INT",
    "OP_SUBTRACT_INT", "OP_MULTIPLY_INT", "OP_DIVIDE_INT", "OP_MODULO_INT",
    "OP_NEGATE_INT", "OP_ADD_FLOAT", "OP_SUBTRACT_FLOAT",
    "OP_MULTIPLY_FLOAT", "OP_DIVIDE_FLOAT", "OP_NEGATE_FLOAT", "OP_ADD",
    "OP_SUBTRACT", "OP_MULTIPLY", "OP_DIVIDE", "OP_MODULO", "OP_NEGATE",
    "OP_NOT", "OP_INT_TO_FLOAT", "OP_FLOAT_TO_INT", "OP_JUMP",
    "OP_JUMP_IF_FALSE", "OP_LOOP", "OP_CALL", "OP_CLOSURE",
    "OP_CLOSE_UPVALUE", "OP_RETURN", "OP_NATIVE_CALL", "OP_PRINT",
    "OP_STRUCT_DEF", "OP_STRUCT_FIELD", "OP_STRUCT_CALL", "OP_GET_FIELD",
    "OP_SET_FIELD", "OP_ARRAY", "OP_INDEX_GET", "OP_INDEX_SET", "OP_METHOD",
    "OP_INVOKE", "OP_GET_SELF", "OP_IMPORT", "OP_GET_LOCAL_0",
    "OP_GET_LOCAL_1", "OP_GET_LOCAL_2", "OP_GET_LOCAL_3", "OP_INC_LOCAL",
    "OP_ADD_LOCAL_CONST", "OP_LESS_LOCAL_CONST", "OP_INDEX_GET_LOCAL">>

dispatch_table ==
  <<"do_CONSTANT", "do_CONSTANT_LONG", "do_NIL", "do_TRUE", "do_FALSE",
    "do_POP", "do_DUP", "do_DUP_TWO", "do_GET_LOCAL", "do_SET_LOCAL",
    "do_GET_GLOBAL", "do_GET_GLOBAL_LONG", "do_DEFINE_GLOBAL",
    "do_DEFINE_GLOBAL_LONG", "do_SET_GLOBAL", "do_SET_GLOBAL_LONG",
    "do_GET_UPVALUE", "do_SET_UPVALUE", "do_UNUSED", "do_UNUSED",
    "do_EQUAL", "do_NOT_EQUAL", "do_GREATER", "do_GREATER_EQUAL", "do_LESS",
    "do_LESS_EQUAL", "do_ADD_INT", "do_SUBTRACT_INT", "do_MULTIPLY_INT",
    "do_DIVIDE_INT", "do_MODULO_INT", "do_NEGATE_INT", "do_ADD_FLOAT",
    "do_SUBTRACT_FLOAT", "do_MULTIPLY_FLOAT", "do_DIVIDE_FLOAT",
    "do_NEGATE_FLOAT", "do_ADD", "do_SUBTRACT", "do_MULTIPLY", "do_DIVIDE",
    "do_MODULO", "do_NEGATE", "do_NOT", "do_INT_TO_FLOAT",
    "do_FLOAT_TO_INT", "do_JUMP", "do_JUMP_IF_FALSE", "do_LOOP", "do_CALL",
    "do_CLOSURE", "do_CLOSE_UPVALUE", "do_RETURN", "do_UNUSED", "do_PRINT",
    "do_STRUCT_DEF", "do_STRUCT_FIELD", "do_UNUSED", "do_GET_FIELD",
    "do_GET_FIELD_LONG", "do_SET_FIELD", "do_SET_FIELD_LONG", "do_ARRAY",
    "do_INDEX_GET", "do_INDEX_SET", "do_METHOD", "do_INVOKE", "do_UNUSED",
    "do_IMPORT", "do_GET_LOCAL_0", "do_GET_LOCAL_1", "do_GET_LOCAL_2",
    "do_GET_LOCAL_3", "do_INC_LOCAL", "do_ADD_LOCAL_CONST",
    "do_LESS_LOCAL_CONST", "do_INDEX_GET_LOCAL">>

HandlerLabels ==
  <<"do_CONSTANT", "do_NIL", "do_TRUE", "do_FALSE", "do_POP", "do_DUP",
    "do_GET_LOCAL", "do_SET_LOCAL", "do_GET_GLOBAL", "do_DEFINE_GLOBAL",
    "do_SET_GLOBAL", "do_GET_UPVALUE", "do_SET_UPVALUE", "do_UNUSED",
    "do_UNUSED", "do_EQUAL", "do_NOT_EQUAL", "do_GREATER",
    "do_GREATER_EQUAL", "do_LESS", "do_LESS_EQUAL", "do_ADD_INT",
    "do_SUBTRACT_INT", "do_MULTIPLY_INT", "do_DIVIDE_INT", "do_MODULO_INT",
    "do_NEGATE_INT", "do_ADD_FLOAT", "do_SUBTRACT_FLOAT",
    "do_MULTIPLY_FLOAT", "do_DIVIDE_FLOAT", "do_NEGATE_FLOAT", "do_ADD",
    "do_SUBTRACT", "do_MULTIPLY", "do_DIVIDE", "do_MODULO", "do_NEGATE",
    "do_NOT", "do_INT_TO_FLOAT", "do_FLOAT_TO_INT", "do_JUMP",
    "do_JUMP_IF_FALSE", "do_LOOP", "do_CALL", "do_CLOSURE",
    "do_CLOSE_UPVALUE", "do_RETURN", "do_UNUSED", "do_PRINT",
    "do_STRUCT_DEF", "do_STRUCT_FIELD", "do_UNUSED", "do_GET_FIELD",
    "do_SET_FIELD", "do_ARRAY", "do_INDEX_GET", "do_INDEX_SET", "do_METHOD",
    "do_INVOKE", "do_UNUSED", "do_IMPORT", "do_GET_LOCAL_0",
    "do_GET_LOCAL_1", "do_GET_LOCAL_2", "do_GET_LOCAL_3", "do_INC_LOCAL",
    "do_ADD_LOCAL_CONST", "do_LESS_LOCAL_CONST", "do_INDEX_GET_LOCAL">>

\* the numeric value of an opcode of the enum
OpValue(op) == CHOOSE k \in 0..(Len(OpCode) - 1) : OpCode[k + 1] = op

\* the label of the handler of an opcode
Handler(op) == HandlerLabels[OpValue(op) + 1]

\* goto *dispatch_table[byte]
DISPATCH(byte) == dispatch_table[byte + 1]

\* C34: in the computed-goto build the dispatch table holds, at the index
\* that is the enum value of an opcode, the label of that opcode's handler,
\* for every instruction of a compiled chunk that is executed.
C34_DispatchTable ==
  [][COMPUTED_GOTO /\ Running /\ steps' = steps + 1 /\ ~OpenChunk
       => DISPATCH(OpValue(last'.op)) = Handler(last'.op)]_vars

\* the opcodes whose table entry is their handler
C34_Agreeing == {OpCode[k] : k \in {k \in 1..Len(OpCode) : dispatch_table[k] = HandlerLabels[k]}}


\* the pair of scripts the script run last belongs to
PairOf ==
  CHOOSE pair \in SuperPairs : heap[program].code \in {pair.unfused, pair.fused}

\* both scripts of the pair have been run
BothRun == program # NULL /\ sources = <<>> /\ result \notin {"running", "UNDEFINED"}

\* The script with the superinstruction has ended as the script with the
\* unfused sequence did: both printed the same value, or both raised a
\* runtime error; and at the print both have the same stack depth.
SameEffect ==
  /\ BothRun =>
       IF result = "INTERPRET_OK" THEN Len(output) = 2 /\ output[1] = output[2]
       ELSE output = <<>>
  /\ Running /\ last.op = "OP_PRINT" => stackTop = (IF PairOf.kind = "local" THEN 4 ELSE 2)

\* C35: each superinstruction has the effect of the unfused sequence it
\* stands for on the stack, the locals and the error outcome: GET_LOCAL_k
\* as GET_LOCAL k, INC_LOCAL s as s = s + 1, ADD_LOCAL_CONST s c as
\* GET_LOCAL s, CONSTANT c, ADD, LESS_LOCAL_CONST s c as GET_LOCAL s,
\* CONSTANT c, LESS, and INDEX_GET_LOCAL s as GET_LOCAL s, INDEX_GET.
C35_Superinstructions == SameEffect

\* the constants that are no strings
NotString(index) == index # 5

\* the pairs whose sum has no string operand and whose comparison is not of
\* two ints that are too large for a double
Numeric(pair) ==
  \/ pair.kind \in {"index", "local"}
  \/ pair.kind \in {"add", "inc"} /\ NotString(pair.fused[1].a)
       /\ (pair.kind = "add" => NotString(pair.fused[2].b))
  \/ pair.kind = "less" /\ (NAN_BOXING \/ {pair.fused[1].a, pair.fused[2].b} # {2, 3})

\* the same for those pairs
C35_Numeric == program # NULL /\ Numeric(PairOf) => SameEffect


\* the struct definitions all of whose STRUCT_FIELDs have run
CompleteDefinitions ==
  {d \in 1..Len(heap) :
     heap[d].type = "OBJ_STRUCT_DEF" /\ \A k \in 1..heap[d].fieldCount : heap[d].fieldNames[k] # NULL}

\* the index the field-index map of definition d has for the name
MapIndex(d, name) ==
  LET got == tableGet(heap, heap[d].fieldIndices, name)
  IN  IF got[1] THEN AS_INT(got[2]) ELSE -1

\* the index the scan of the field names of definition d finds for the name
ScanIndex(d, name) == FirstIndex(heap[d].fieldNames, name) - 1

SameIndex(d) ==
  \A name \in {s \in 1..Len(heap) : heap[s].type = "OBJ_STRING"} :
    MapIndex(d, name) = ScanIndex(d, name)

\* C36: after STRUCT_DEF and its STRUCT_FIELDs the field-index map of the
\* definition sends every name to the index the linear scan of the field
\* names finds for it (and has no entry for a name the scan does not find),
\* so field lookup gives the same index for definitions of at most 8 fields
\* and of more than 8.
C36_MapIsScan == \A d \in CompleteDefinitions : SameIndex(d)

Distinct(names) == \A j, k \in 1..Len(names) : names[j] = names[k] => j = k

\* the same for the definitions whose field names are all different
C36_DistinctNames ==
  \A d \in CompleteDefinitions : Distinct(heap[d].fieldNames) => SameIndex(d)

\* a definition of more than 8 different fields is complete and bound
C36_Witness ==
  /\ result = "INTERPRET_OK"
  /\ \E d \in CompleteDefinitions :
       /\ heap[d].fieldCount > 8
       /\ Distinct(heap[d].fieldNames)
       /\ FieldIndex(d, heap[d].fieldNames[9]) = 8


\* the statements of the function that is running
RunningStatements ==
  IF Running /\ ~OpenChunk
    THEN {s \in compiling.statements : s.function = CurClosure.function}
    ELSE {}

\* at the first instruction of each statement the depth of the frame's stack
\* window is the compiler's local count there
DepthIsLocalCount ==
  \A s \in RunningStatements : CurFrame.ip = s.at => Depth = s.locals

\* the script has returned normally
ScriptEnded == result = "INTERPRET_OK" /\ last.op = "OP_RETURN"

\* the script that ended has left the stack empty and, but for the module,
\* has printed the value of its local b last
EndsEmpty ==
  /\ stackTop = 0
  /\ HasReturned /\ sources = <<>> => output # <<>> /\ output[Len(output)] = <<50>>

\* C37: every compiled statement keeps the depth of the frame's stack window
\* equal to the compiler's local count: at the first instruction of every
\* statement, and so after the statement before it, the depth is the number
\* of locals declared and in scope (slot 0 included); the local read after
\* the statement is the one declared, and a script that ends normally
\* leaves the stack empty.
C37_StatementDepth == DepthIsLocalCount /\ (ScriptEnded => EndsEmpty)

\* the source has no import, and no type declaration with a field after a
\* method
Balanced(source) ==
  /\ \A k \in 1..Len(source) : source[k].kind # "import"
  /\ \A k \in 1..(Len(source) - 2) :
       ~(source[k].kind = "method" /\ source[k + 2].kind = "field")

\* the same for those sources
C37_Balanced == Balanced(compiling.source) => C37_StatementDepth

\* the call statement has returned into the block, at the next statement
C37_Witness ==
  /\ Running
  /\ last.op = "OP_POP"
  /\ CurFunction.code[CurFrame.ip - 2].op = "OP_CALL"
  /\ compiling.source = InBlock(<<CallStmt(FChars, <<>>)>>)
  /\ \E s \in RunningStatements : CurFrame.ip = s.at /\ s.locals = 2 /\ Depth = 2


\* the values of the globals
GlobalValues ==
  {globals.entries[k].value : k \in {j \in 1..Len(globals.entries) : globals.entries[j].key # NULL}}

\* the closures a frame runs, the live part of the stack holds or a global holds
ReachableClosures ==
  {c \in Closures(heap) :
     \/ OBJ_VAL(c) \in Live \cup GlobalValues
     \/ \E k \in 1..Len(frames) : frames[k].closure = c}

OpenOrClosed(upvalue) ==
  \/ heap[upvalue].location = CLOSED
  \/ \E k \in 1..Len(openUpvalues) : openUpvalues[k] = upvalue

\* the session has run its three lines, the last one without an error
KeptSessionEnded ==
  /\ HasReturned
  /\ sources = <<>>
  /\ result = "INTERPRET_OK"
  /\ last.op = "OP_RETURN"

\* C38: every upvalue of a reachable closure is on the open-upvalue list or
\* closed, at every instruction boundary and between the interpret() calls
\* of a session, a runtime error's stack reset included.
C38_OpenOrClosed ==
  \A c \in ReachableClosures :
    \A i \in 1..Len(heap[c].upvalues) :
      heap[c].upvalues[i] # NULL => OpenOrClosed(heap[c].upvalues[i])

\* the same as long as no runtime error has happened
C38_NoError == errorMsg.format = "" => C38_OpenOrClosed

\* print(h()) runs f after the line that made it has failed: GET_UPVALUE
\* has read through an upvalue that is neither closed nor on the list
C38_Dangling ==
  /\ Running
  /\ last.op = "OP_GET_UPVALUE"
  /\ errorMsg.format = "Operand must be a number."
  /\ ~OpenOrClosed(CurClosure.upvalues[1])


\* the step is typeDeclaration storing the name of a field
WritesField ==
  /\ compiling.active
  /\ compiling'.active
  /\ compiling.rest # <<>>
  /\ Head(compiling.rest).kind = "field"
  /\ compiling.open # <<>>
  /\ Inner(compiling).kind = "type"
  /\ compiling' # compiling

\* the locals and upvalues arrays of every Compiler hold at most 256 entries
LocalsAndUpvaluesInBounds ==
  compiling'.active =>
    \A level \in 1..Len(compiling'.compilers) :
      /\ Len(compiling'.compilers[level].locals) <= UINT8_COUNT
      /\ Len(compiling'.compilers[level].upvalues) <= UINT8_COUNT

\* C39: the compiler writes its tables inside their bounds: no Compiler's
\* locals or upvalues array gets more than 256 entries, and typeDeclaration
\* stores a field name at fieldNames[fieldCount] with fieldCount in 0..255
\* only, also after a limit error and for a field after a method.
C39_TablesInBounds ==
  [][/\ LocalsAndUpvaluesInBounds
     /\ WritesField => Inner(compiling).fieldCount \in 0..(UINT8_COUNT - 1)]_vars

\* the same for the locals and upvalues alone
C39_LocalsAndUpvalues == [][LocalsAndUpvaluesInBounds]_vars

\* the same for the fields of the declarations with at most 256 fields and
\* no method before a field
C39_FieldsInBounds ==
  [][/\ WritesField
     /\ compiling.source \in {TypeSource(UINT8_COUNT), IfFalse(TypeBody(<<"field", "method">>))}
     => Inner(compiling).fieldCount \in 0..(UINT8_COUNT - 1) /\ ~compiling'.undefined]_vars

\* after 'Too many local variables in function.' another local is declared:
\* the locals array is full and stays as it is
C39_Witness ==
  /\ compiling.active
  /\ compiling.source = LocalsAfterError
  /\ compiling.errors = <<"Too many local variables in function.",
                          "Too many local variables in function.">>
  /\ Len(Cur(compiling).locals) = UINT8_COUNT


\* the source is a text being scanned: its characters not scanned yet and
\* the tokens made of the others
Scanning ==
  /\ ~compiling.active
  /\ compiling.texts # <<>>
  /\ Head(compiling.texts) # <<>>
  /\ Head(compiling.texts)[Len(Head(compiling.texts))].kind = "text"
TextLeft == Head(compiling.texts)[Len(Head(compiling.texts))].chars
TokensScanned ==
  IF Len(Head(compiling.texts)) > 1 THEN Head(compiling.texts)[1].tokens ELSE <<>>

\* a scanToken() returns TOKEN_EOF, or one more token and a shorter text
ScannerConsumes ==
  Scanning =>
    \/ ~Scanning'
    \/ /\ Len(TokensScanned') = Len(TokensScanned) + 1
       /\ Len(TextLeft') < Len(TextLeft)

\* the tokens the parser has not read
TokensLeft(c) == IF c.rest = <<>> THEN 0 ELSE Len(c.rest[1].tokens)

\* a turn of the loop of compile(), of block() or of typeDeclaration, the
\* synchronisation that follows included, reads a token or leaves a loop
LoopsConsume ==
  compiling.active /\ compiling'.active =>
    \/ TokensLeft(compiling') < TokensLeft(compiling)
    \/ /\ TokensLeft(compiling') = TokensLeft(compiling)
       /\ Len(compiling'.open) < Len(compiling.open)

\* C40: compile() returns for every text: every scanToken() that returns a
\* token other than TOKEN_EOF has consumed a character, every turn of the
\* loops of compile(), block() and typeDeclaration, the synchronisation
\* after an error included, reads a token or ends the loop, and at last
\* compile() has returned.
C40_Terminates ==
  /\ [][ScannerConsumes /\ LoopsConsume]_vars
  /\ <>HasReturned

\* compile() has returned for a text with a type declaration and an
\* unexpected character, after two errors and so a synchronisation
C40_Witness ==
  /\ HasReturned
  /\ \E k \in 1..Len(TokensCompiled) : TokensCompiled[k].type = "TOKEN_TYPE"
  /\ \E k \in 1..Len(TokensCompiled) : TokensCompiled[k].type = "TOKEN_ERROR"
  /\ Len(compiling.errors) >= 2
  /\ \E k \in 1..Len(compiling.errors) : compiling.errors[k] = "Unexpected character."

====
